---- MODULE Spec2Model ----
(***************************************************************************)
(* Model of the plugin pipeline of villv (packages/villv/src/node):        *)
(*   - the hook sorter               plugins/index.ts                       *)
(*   - the plugin container          server/middlewares/proxy.ts            *)
(*     (createPluginContainer: resolveId / load / transform / close)        *)
(*   - the package-manifest lookup   packages.ts                            *)
(*                                                                         *)
(* Scheduling is that of a JavaScript event loop: one action is the code   *)
(* that runs between two awaits.                                           *)
(***************************************************************************)
EXTENDS Integers, Sequences, FiniteSets, TLC

(***************************************************************************)
(* Bounds                                                                  *)
(***************************************************************************)
\* length of the plugin lists handed to the hook sorter
MaxSortLen == 4

\* number of plugins in the container's plugin list
MaxPlugins == 2

\* number of resolveId / load / transform calls made on one container
MaxCalls == 1

\* number of transform calls in flight at once
MaxConcurrent == 2

\* number of times close() is called on one container
MaxCloseCalls == 3

(***************************************************************************)
(* Hook entries.  plugin[key] is undefined ("absent"), a bare handler      *)
(* function ("fn"), or an object { order, handler } whose order is 'pre',  *)
(* 'post' or undefined ("obj").                                            *)
(***************************************************************************)
HookKinds == {"absent", "fn", "pre", "post", "obj"}

ObjectKinds == {"pre", "post", "obj"}

VARIABLES
  sortIn,              \* getSortedPluginsBy: the plugin list (sequence of [name, hook])
  sortOut,             \* getSortedPluginsBy: [called, result], result the returned list
  plugins,             \* config.plugins of the container: sequence of [name, hook, sequential]
  sortedPluginsCache,  \* createPluginHookUtils: hook name -> [has, list]
  closed,              \* the container's closed flag
  processesing,        \* the set of pending hook promises, each named by its owner
  calls,               \* the resolveId / load / transform calls: call id -> call record
  closing,             \* the close() calls and the teardown they run
  hooks,               \* the buildEnd / closeBundle handler promises: hook -> plugin -> status
  fs,                  \* the filesystem: directory -> what its package.json is
  packageCache,        \* the PackageCache map: directory of the key fnpd_<dir> -> manifest
  fnpd,                \* findNearestPackageData: the last call and what it returned
  installed,           \* directory -> what its node_modules/<pkgName>/package.json is
  manifest,            \* the content of the installed package <pkgName>
  rpdCache,            \* the PackageCache map: directory of the key rpd_<pkgName>_<dir> -> manifest
  resolvedImports,     \* PackageData -> its webResolvedImports / nodeResolvedImports
  tnr,                 \* tryNodeResolve: the last call and what it returned
  realpath,            \* directory -> the physical package its node_modules/<pkgName> links to
  rpd,                 \* resolvePackageData: the last call and what it returned
  tcfr,                \* tryCleanFsResolve: the arguments and files of a call, and what it returned
  modules,             \* moduleGraph: module id -> [meta, info], info the target of its ModuleInfo proxy
  access,              \* the last read of a property of a ModuleInfo proxy and what it gave
  logger,              \* the logger: [canClearScreen, threshold, lastType, lastMsg, sameCount, hasWarned]
  console,             \* the lines the logger wrote to the console
  warnCalls,           \* the calls of warnIncompatibleMethod: sequence of [method, plugin]
  ctxCall,             \* the last call of an unsupported context method and how it ended
  resolving,           \* the container.resolveId calls under way, innermost last
  pos,                 \* an offset of a source text, its position and the offset of that position
  frame,               \* a generateCodeFrame call: its arguments and the lines it rendered
  merged,              \* a mergeConfig call: defaults, overrides and the result
  hot                  \* the HMR client: its listener maps and the callbacks notified

sortVars == <<sortIn, sortOut>>

ctrVars == <<plugins, sortedPluginsCache, closed, processesing, calls, closing, hooks>>

pkgVars == <<fs, packageCache, fnpd>>

resVars == <<installed, manifest, rpdCache, resolvedImports, tnr, realpath, rpd, tcfr>>

ctxVars == <<modules, access, logger, console, warnCalls>>

utilVars == <<ctxCall, resolving, pos, frame, merged, hot>>

vars == <<sortVars, ctrVars, pkgVars, resVars, ctxVars, utilVars>>

(***************************************************************************)
(* Array helpers                                                           *)
(***************************************************************************)
RECURSIVE FilterSeq(_, _)
\* Array.prototype.filter with the predicate given as the set of kept values
FilterSeq(s, keep) ==
  IF s = <<>> THEN <<>>
  ELSE IF Head(s) \in keep THEN <<Head(s)>> \o FilterSeq(Tail(s), keep)
       ELSE FilterSeq(Tail(s), keep)

RECURSIVE SeqsUpTo(_, _)
\* all sequences over S of length 0..n
SeqsUpTo(S, n) ==
  IF n = 0 THEN {<<>>}
  ELSE LET shorter == SeqsUpTo(S, n - 1)
       IN shorter \cup {Append(s, x) : s \in {t \in shorter : Len(t) = n - 1}, x \in S}

Range(s) == {s[i] : i \in 1..Len(s)}

(***************************************************************************)
(* plugins/index.ts  getSortedPluginsBy(key, plugins)                      *)
(* A plugin is seen through its entry for the key: [name, hook].           *)
(***************************************************************************)
\* .filter(({ hook }) => hook != null)
PluginHooks(list) ==
  FilterSeq(list, {p \in Range(list) : p.hook # "absent"})

\* typeof hook === 'object' && hook.order === 'pre'
PreOf(pluginHooks) ==
  FilterSeq(pluginHooks, {p \in Range(pluginHooks) : p.hook \in ObjectKinds /\ p.hook = "pre"})

\* typeof hook === 'object' && hook.order === 'post'
PostOf(pluginHooks) ==
  FilterSeq(pluginHooks, {p \in Range(pluginHooks) : p.hook \in ObjectKinds /\ p.hook = "post"})

\* typeof hook !== 'object'
NormalOf(pluginHooks) ==
  FilterSeq(pluginHooks, {p \in Range(pluginHooks) : p.hook \notin ObjectKinds})

getSortedPluginsBy(list) ==
  LET pluginHooks == PluginHooks(list)
  IN PreOf(pluginHooks) \o NormalOf(pluginHooks) \o PostOf(pluginHooks)

(***************************************************************************)
(* Specification of the hook sorter alone: every plugin list of up to      *)
(* MaxSortLen plugins, sorted for one hook name.                           *)
(***************************************************************************)
RECURSIVE Named(_, _)
\* the plugin list whose i-th plugin is named i and has the i-th entry of kinds
Named(kinds, from) ==
  IF kinds = <<>> THEN <<>>
  ELSE <<[name |-> from, hook |-> Head(kinds)]>> \o Named(Tail(kinds), from + 1)

\* the container is not part of this specification
CtrIdle ==
  /\ plugins = <<>>
  /\ sortedPluginsCache = <<>>
  /\ closed = FALSE
  /\ processesing = {}
  /\ calls = <<>>
  /\ closing = <<>>
  /\ hooks = <<>>

\* the result of no lookup
NoLookup ==
  [called |-> FALSE, baseDirectory |-> 0, cached |-> FALSE, result |-> <<>>, threw |-> FALSE]

\* the package lookup is not part of this specification
PkgIdle ==
  /\ fs = <<>>
  /\ packageCache = <<>>
  /\ fnpd = NoLookup

\* the result of no resolution
NoResolve ==
  [called |-> FALSE, id |-> "", basedir |-> 0, targetWeb |-> FALSE, tryEsmOnly |-> FALSE,
   isRequire |-> FALSE, kind |-> "undefined", error |-> "", result |-> <<>>, probes |-> 0]

\* the result of no resolvePackageData call
NoPackage == [called |-> FALSE, basedir |-> 0, result |-> <<>>]

\* no read of a ModuleInfo property
NoAccess == [called |-> FALSE, id |-> "", key |-> "", kind |-> "undefined"]

\* the module graph, the logger and the context methods are not part of this
\* specification
CtxIdle ==
  /\ modules = <<>>
  /\ access = NoAccess
  /\ logger = <<>>
  /\ console = <<>>
  /\ warnCalls = <<>>

\* the context method calls, the nested resolutions, the source utilities,
\* mergeConfig and the HMR client are not part of this specification
UtilIdle ==
  /\ ctxCall = <<>>
  /\ resolving = <<>>
  /\ pos = <<>>
  /\ frame = <<>>
  /\ merged = <<>>
  /\ hot = <<>>

\* the resolver is not part of this specification
ResIdle ==
  /\ installed = <<>>
  /\ manifest = <<>>
  /\ rpdCache = <<>>
  /\ resolvedImports = <<>>
  /\ tnr = NoResolve
  /\ realpath = <<>>
  /\ rpd = NoPackage
  /\ tcfr = <<>>

SortInit ==
  /\ CtrIdle
  /\ CtxIdle
  /\ UtilIdle
  /\ PkgIdle
  /\ ResIdle
  /\ sortIn \in {Named(k, 1) : k \in SeqsUpTo(HookKinds, MaxSortLen)}
  /\ sortOut = [called |-> FALSE, result |-> <<>>]

SortPlugins ==
  /\ ~sortOut.called
  /\ sortOut' = [called |-> TRUE, result |-> getSortedPluginsBy(sortIn)]
  /\ UNCHANGED <<sortIn, ctrVars, pkgVars, resVars, ctxVars, utilVars>>

SortNext == SortPlugins

SortSpec == SortInit /\ [][SortNext]_vars

(***************************************************************************)
(* server/middlewares/proxy.ts  createPluginContainer                      *)
(*                                                                         *)
(* The source reads and assigns `closed` (lines 311, 689, 752, 783, 839,   *)
(* 843) without declaring it; it is modelled as the flag of the container  *)
(* that is falsy until close() assigns true.                               *)
(***************************************************************************)
CallIds == 1..MaxCalls

PluginNames == 1..MaxPlugins

CallHooks == {"resolveId", "load", "transform"}

TeardownHooks == {"buildEnd", "closeBundle"}

\* What a handler hands back.  kind: "null" (null or undefined), "false",
\* "empty" (the empty string), "str" (a non-empty string), "obj" (an object with
\* an id / a code), "objNoCode" (an object whose code is undefined), "throw"
\* (throws, or its promise rejects), "thisError" (calls this.error()).
\* map: the `map` of an object result.  req: the handler called
\* this.getCombinedSourcemap() while it ran.
Result(kind, map, req) == [kind |-> kind, map |-> map, req |-> req]

NoResult == Result("none", "none", FALSE)

\* !result
Falsy(r) == r.kind \in {"null", "false", "empty"}

\* code values: the code passed to transform(), '' , the code written by a plugin
SrcCode == [text |-> "src", by |-> 0]

EmptyCode == [text |-> "", by |-> 0]

NullCode == [text |-> "null", by |-> 0]

GenCode(p) == [text |-> "gen", by |-> p]

\* source maps: null is NoMap, a map is the sequence of those whose maps it
\* composes (0 is the inMap of the call)
NoMap == <<>>

\* class Context / TransformContext: the fields the container reads and writes
NewContext ==
  [_activePlugin |-> 0, _activeId |-> 0, _activeCode |-> NullCode,
   sourcemapChain |-> <<>>, combinedMap |-> NoMap]

\* TransformContext constructor: if (inMap) this.sourcemapChain.push(inMap)
NewTransformContext(inMap) ==
  [NewContext EXCEPT
     !.sourcemapChain = IF inMap # "none" THEN <<[map |-> inMap, by |-> 0]>> ELSE <<>>]

\* errors: code, by (the plugin whose handler raised it), and the fields
\* formatError adds: plugin, id, pluginCode
ClosedServerError ==
  [code |-> "ERR_CLOSED_SERVER", by |-> 0, plugin |-> 0, id |-> 0, pluginCode |-> NullCode]

ThrownBy(p) ==
  [code |-> "PLUGIN_ERROR", by |-> p, plugin |-> 0, id |-> 0, pluginCode |-> NullCode]

\* formatError reading one context shared by all calls: that of the call made
\* last
formatError_SharedContext(e, ctx) ==
  LET live == {c \in DOMAIN calls : calls[c].pc # "idle"}
      shared == IF live = {} THEN ctx
                ELSE calls[CHOOSE c \in live : \A d \in live : d <= c].ctx
  IN IF e.pluginCode # NullCode THEN e
     ELSE [e EXCEPT
             !.plugin = IF shared._activePlugin # 0 THEN shared._activePlugin ELSE @,
             !.id = IF shared._activeId # 0 /\ e.id = 0 THEN shared._activeId ELSE @,
             !.pluginCode = IF shared._activeCode \notin {NullCode, EmptyCode}
                            THEN shared._activeCode ELSE @]

\* formatError(e, undefined, ctx) for an error without pos / loc of its own
formatError(e, ctx) ==
  IF e.pluginCode # NullCode THEN e
  ELSE [e EXCEPT
          !.plugin = IF ctx._activePlugin # 0 THEN ctx._activePlugin ELSE @,
          !.id = IF ctx._activeId # 0 /\ e.id = 0 THEN ctx._activeId ELSE @,
          !.pluginCode = IF ctx._activeCode \notin {NullCode, EmptyCode}
                         THEN ctx._activeCode ELSE @]

RECURSIVE FoldChain(_, _)
\* the for loop of _getCombinedSourcemap over the rest of the chain:
\* [nullified, map]
FoldChain(chain, combinedMap) ==
  IF chain = <<>> THEN [nullified |-> FALSE, map |-> combinedMap]
  ELSE IF Head(chain).map # "ver" THEN [nullified |-> TRUE, map |-> NoMap]
  ELSE FoldChain(Tail(chain),
                 IF combinedMap = NoMap THEN <<Head(chain).by>>
                 ELSE Append(combinedMap, Head(chain).by))

\* TransformContext._getCombinedSourcemap: the context afterwards.  The value
\* returned is the combinedMap of that context (or, with createIfNull, a map
\* generated on the spot that is not kept).
getCombinedSourcemap(ctx) ==
  LET folded == FoldChain(ctx.sourcemapChain, ctx.combinedMap)
  IN IF folded.nullified
     THEN [ctx EXCEPT !.combinedMap = NoMap, !.sourcemapChain = <<>>]
     ELSE IF folded.map = NoMap THEN ctx
     ELSE IF folded.map # ctx.combinedMap
     THEN [ctx EXCEPT !.combinedMap = folded.map, !.sourcemapChain = <<>>]
     ELSE ctx

\* createPluginHookUtils.getSortedPlugins: the memoised sort of config.plugins
getSortedPlugins(hookName) ==
  IF sortedPluginsCache[hookName].has THEN sortedPluginsCache[hookName].list
  ELSE getSortedPluginsBy(plugins)

\* sortedPluginsCache.set(hookName, sorted)
CacheSorted(cache, hookName) ==
  IF cache[hookName].has THEN cache
  ELSE [cache EXCEPT ![hookName] = [has |-> TRUE, list |-> getSortedPluginsBy(plugins)]]

\* a call that has not been made
IdleCall ==
  [pc |-> "idle", hook |-> "none", id |-> 0, ssr |-> FALSE, idx |-> 0, last |-> NoResult,
   ctx |-> NewContext, code |-> SrcCode, invoked |-> <<>>,
   out |-> [kind |-> "none", from |-> 0, code |-> NullCode, map |-> NoMap,
            err |-> ThrownBy(0)],
   sync |-> FALSE, afterClose |-> FALSE, atClose |-> "no", idxAtClose |-> 0]

Returned(call, from, code, map) ==
  [call EXCEPT !.pc = "done",
               !.out = [kind |-> "return", from |-> from, code |-> code, map |-> map,
                        err |-> ThrownBy(0)]]

Rejected(call, err) ==
  [call EXCEPT !.pc = "done",
               !.out = [kind |-> "reject", from |-> 0, code |-> NullCode, map |-> NoMap,
                        err |-> err]]

\* LoopFrom without the closed check
LoopFrom_NoClosedCheck(call, i, r, async) ==
  LET sorted == getSortedPlugins(call.hook)
  IN IF i > Len(sorted)
     THEN CASE call.hook = "transform" ->
                 LET ctx == getCombinedSourcemap(call.ctx)
                 IN Returned([call EXCEPT !.ctx = ctx], 0, call.code, ctx.combinedMap)
            [] OTHER -> Returned(call, 0, NullCode, NoMap)
     ELSE LET plugin == sorted[i]
              ctx == IF call.hook = "transform"
                     THEN [call.ctx EXCEPT !._activePlugin = plugin.name,
                                           !._activeId = call.id,
                                           !._activeCode = call.code]
                     ELSE [call.ctx EXCEPT !._activePlugin = plugin.name]
          IN [call EXCEPT !.idx = i,
                          !.ctx = ctx,
                          !.invoked = Append(@, [plugin |-> plugin.name, input |-> call.code,
                                                 result |-> "none", map |-> "none"]),
                          !.pc = IF async THEN "pending" ELSE "ready",
                          !.sync = ~async,
                          !.last = IF async THEN NoResult ELSE r]

\* One pass through the head of the for loop of resolveId / load / transform,
\* entered at the i-th sorted plugin, up to the await of its handler's result:
\* the closed check, the handler call and handleHookPromise.  r is what a
\* handler that returns at once hands back; async is whether the handler
\* returns a promise instead.
LoopFrom(call, i, r, async) ==
  LET sorted == getSortedPlugins(call.hook)
  IN IF i > Len(sorted)
     THEN \* the loop is over
          CASE call.hook = "transform" ->
                 LET ctx == getCombinedSourcemap(call.ctx)
                 IN Returned([call EXCEPT !.ctx = ctx], 0, call.code, ctx.combinedMap)
            [] OTHER -> Returned(call, 0, NullCode, NoMap)
     ELSE IF closed /\ ~call.ssr
     THEN Rejected(call, ClosedServerError)
     ELSE LET plugin == sorted[i]
              ctx == IF call.hook = "transform"
                     THEN [call.ctx EXCEPT !._activePlugin = plugin.name,
                                           !._activeId = call.id,
                                           !._activeCode = call.code]
                     ELSE [call.ctx EXCEPT !._activePlugin = plugin.name]
          IN [call EXCEPT !.idx = i,
                          !.ctx = ctx,
                          !.invoked = Append(@, [plugin |-> plugin.name, input |-> call.code,
                                                 result |-> "none", map |-> "none"]),
                          !.pc = IF async THEN "pending" ELSE "ready",
                          !.sync = ~async,
                          !.last = IF async THEN NoResult ELSE r]

\* container.resolveId / load / transform is called: the context is created and
\* the loop runs up to the first await
StartCall(c, h, ssr, inMap, r, async) ==
  /\ calls[c].pc = "idle"
  /\ c > 1 => calls[c - 1].pc # "idle"
  /\ h # "transform" => inMap = "none"
  /\ LET call == LoopFrom([IdleCall EXCEPT
                             !.hook = h, !.id = c, !.ssr = ssr, !.afterClose = closed,
                             !.ctx = IF h = "transform" THEN NewTransformContext(inMap)
                                     ELSE NewContext],
                          1, r, async)
     IN /\ calls' = [calls EXCEPT ![c] = call]
        /\ processesing' = IF call.pc = "pending" THEN processesing \cup {c}
                           ELSE processesing
  /\ sortedPluginsCache' = CacheSorted(sortedPluginsCache, h)
  /\ UNCHANGED <<resVars, pkgVars, sortVars, ctxVars, utilVars, plugins, closed, closing, hooks>>

\* SettleHandler where close() joins the pending promises with Promise.all: a
\* rejection fails close() on the spot
SettleHandler_FailFast(c, r) ==
  /\ calls[c].pc = "pending"
  /\ calls' = [calls EXCEPT ![c].pc = "ready", ![c].last = r]
  /\ processesing' = processesing \ {c}
  /\ closing' = IF c \in closing.wait /\ r.kind = "throw"
                THEN [closing EXCEPT !.pc = "failed", !.wait = {}]
                ELSE [closing EXCEPT !.wait = @ \ {c}]
  /\ UNCHANGED <<resVars, pkgVars, sortVars, ctxVars, utilVars, plugins, sortedPluginsCache, closed, hooks>>

\* the promise a handler returned settles with r; the finally callback of
\* handleHookPromise takes it out of the processing set
SettleHandler(c, r) ==
  /\ calls[c].pc = "pending"
  /\ calls' = [calls EXCEPT ![c].pc = "ready", ![c].last = r]
  /\ processesing' = processesing \ {c}
  /\ closing' = [closing EXCEPT !.wait = @ \ {c}]
  /\ UNCHANGED <<resVars, pkgVars, sortVars, ctxVars, utilVars, plugins, sortedPluginsCache, closed, hooks>>

\* AfterHandler where transform forgets the code of a string result
AfterHandler_DropsString(call) ==
  LET res == call.last
      plugin == call.ctx._activePlugin
      ctx == IF call.hook = "transform" /\ res.req THEN getCombinedSourcemap(call.ctx)
             ELSE call.ctx
      seen == [call EXCEPT !.ctx = ctx,
                           !.invoked[Len(call.invoked)].result = res.kind,
                           !.invoked[Len(call.invoked)].map = res.map]
  IN CASE call.hook = "resolveId" ->
            IF res.kind = "throw" THEN Rejected(seen, ThrownBy(plugin))
            ELSE IF res.kind = "thisError"
            THEN Rejected(seen, formatError(ThrownBy(plugin), ctx))
            ELSE IF Falsy(res) THEN seen
            ELSE Returned(seen, plugin, NullCode, NoMap)
       [] call.hook = "load" ->
            IF res.kind = "throw" THEN Rejected(seen, ThrownBy(plugin))
            ELSE IF res.kind = "thisError"
            THEN Rejected(seen, formatError(ThrownBy(plugin), ctx))
            ELSE IF res.kind # "null" THEN Returned(seen, plugin, NullCode, NoMap)
            ELSE seen
       [] OTHER ->
            IF res.kind \in {"throw", "thisError"}
            THEN Rejected(seen, formatError(ThrownBy(plugin), ctx))
            ELSE IF Falsy(res) THEN seen
            ELSE IF res.kind = "obj"
            THEN [seen EXCEPT
                    !.code = GenCode(plugin),
                    !.ctx.sourcemapChain =
                       IF res.map # "none" THEN Append(@, [map |-> res.map, by |-> plugin])
                       ELSE @]
            ELSE seen

\* what the call does with the awaited result of its handler, before the next
\* pass through the loop
AfterHandler(call) ==
  LET res == call.last
      plugin == call.ctx._activePlugin
      \* the handler's own this.getCombinedSourcemap()
      ctx == IF call.hook = "transform" /\ res.req THEN getCombinedSourcemap(call.ctx)
             ELSE call.ctx
      seen == [call EXCEPT !.ctx = ctx,
                           !.invoked[Len(call.invoked)].result = res.kind,
                           !.invoked[Len(call.invoked)].map = res.map]
  IN CASE call.hook = "resolveId" ->
            IF res.kind = "throw" THEN Rejected(seen, ThrownBy(plugin))
            ELSE IF res.kind = "thisError"
            THEN Rejected(seen, formatError(ThrownBy(plugin), ctx))
            ELSE IF Falsy(res) THEN seen
            ELSE Returned(seen, plugin, NullCode, NoMap)
       [] call.hook = "load" ->
            IF res.kind = "throw" THEN Rejected(seen, ThrownBy(plugin))
            ELSE IF res.kind = "thisError"
            THEN Rejected(seen, formatError(ThrownBy(plugin), ctx))
            ELSE IF res.kind # "null" THEN Returned(seen, plugin, NullCode, NoMap)
            ELSE seen
       [] OTHER ->
            IF res.kind \in {"throw", "thisError"}
            THEN Rejected(seen, formatError(ThrownBy(plugin), ctx))
            ELSE IF Falsy(res) THEN seen
            ELSE IF res.kind = "obj"
            THEN [seen EXCEPT
                    !.code = GenCode(plugin),
                    !.ctx.sourcemapChain =
                       IF res.map # "none" THEN Append(@, [map |-> res.map, by |-> plugin])
                       ELSE @]
            ELSE IF res.kind = "objNoCode" THEN seen
            ELSE [seen EXCEPT !.code = GenCode(plugin)]

\* the call resumes after its await and runs to its next await or to its end
Resume(c, r, async) ==
  /\ calls[c].pc = "ready"
  /\ LET after == AfterHandler(calls[c])
         call == IF after.pc = "done" THEN after
                 ELSE LoopFrom(after, after.idx + 1, r, async)
     IN /\ calls' = [calls EXCEPT ![c] = call]
        /\ processesing' = IF call.pc = "pending" THEN processesing \cup {c}
                           ELSE processesing
  /\ closing' = [closing EXCEPT !.before = @ \ {c}]
  /\ UNCHANGED <<resVars, pkgVars, sortVars, ctxVars, utilVars, plugins, sortedPluginsCache, closed, hooks>>

(***************************************************************************)
(* container.close() and hookParallel                                      *)
(***************************************************************************)
\* how a buildEnd / closeBundle handler behaves when invoked
HandlerBehaviours == {"sync", "async", "throw"}

NoHooks == [h \in TeardownHooks |-> [p \in PluginNames |-> [status |-> "none", calls |-> 0]]]

\* wait: the promises close() awaits.  before: the calls whose continuation was
\* already queued when close() was called, and so runs before that of close().
\* again: where the first close() stood at each later call of close()
NotClosing ==
  [pc |-> "idle", wait |-> {}, before |-> {}, idx |-> 0, parallelPromises |-> {},
   await |-> "none", again |-> <<>>]

\* handler.apply(context(plugin), args(plugin))
Invoke(hk, h, p, beh) ==
  [hk EXCEPT ![h][p] = [status |-> CASE beh[p] = "sync" -> "fulfilled"
                                     [] beh[p] = "async" -> "pending"
                                     [] OTHER -> "rejected",
                        calls |-> @.calls + 1]]

RECURSIVE RunParallel(_, _, _, _, _)
\* hookParallel(h): the for loop from the i-th sorted plugin up to its next
\* await, or to the handler that throws
RunParallel(h, i, par, hk, beh) ==
  LET sorted == getSortedPlugins(h)
  IN IF i > Len(sorted)
     THEN [pc |-> h, idx |-> i, parallelPromises |-> par, await |-> "final", hooks |-> hk]
     ELSE IF sorted[i].sequential
     THEN [pc |-> h, idx |-> i, parallelPromises |-> par, await |-> "all", hooks |-> hk]
     ELSE IF beh[sorted[i].name] = "throw"
     THEN [pc |-> "failed", idx |-> i, parallelPromises |-> par, await |-> "none",
           hooks |-> Invoke(hk, h, sorted[i].name, beh)]
     ELSE RunParallel(h, i + 1, par \cup {sorted[i].name},
                      Invoke(hk, h, sorted[i].name, beh), beh)

\* the state of close() after a run of hookParallel
Teardown(run) ==
  [closing EXCEPT !.pc = run.pc, !.idx = run.idx,
                  !.parallelPromises = run.parallelPromises, !.await = run.await]

\* Promise.all(parallelPromises)
AllFulfilled(h, par) == \A p \in par : hooks[h][p].status = "fulfilled"

SomeRejected(h, par) == \E p \in par : hooks[h][p].status = "rejected"

\* Close without the wait for the pending hook promises
Close_NoDrain ==
  /\ ~closed
  /\ closed' = TRUE
  /\ closing' = [NotClosing EXCEPT !.pc = "drain"]
  /\ calls' = [c \in DOMAIN calls |->
                 IF calls[c].pc \in {"pending", "ready"}
                 THEN [calls[c] EXCEPT !.atClose = calls[c].pc, !.idxAtClose = calls[c].idx]
                 ELSE calls[c]]
  /\ UNCHANGED <<resVars, pkgVars, sortVars, ctxVars, utilVars, plugins, sortedPluginsCache, processesing, hooks>>

\* Close without the `if (closed) return`
Close_NoClosedCheck ==
  /\ Len(closing.again) + 1 < MaxCloseCalls
  /\ closed' = TRUE
  /\ closing' = [NotClosing EXCEPT
                   !.pc = "drain", !.wait = processesing,
                   !.before = {c \in DOMAIN calls : calls[c].pc = "ready" /\ calls[c].sync},
                   !.again = IF closed THEN Append(closing.again, closing.pc) ELSE <<>>]
  /\ calls' = [c \in DOMAIN calls |->
                 IF calls[c].pc \in {"pending", "ready"}
                 THEN [calls[c] EXCEPT !.atClose = calls[c].pc, !.idxAtClose = calls[c].idx]
                 ELSE calls[c]]
  /\ UNCHANGED <<resVars, pkgVars, sortVars, ctxVars, utilVars, plugins, sortedPluginsCache, processesing, hooks>>

\* close() is called for the first time: it sets closed and awaits
\* Promise.allSettled over the hook promises pending right now
Close ==
  /\ ~closed
  /\ closed' = TRUE
  /\ closing' = [NotClosing EXCEPT
                   !.pc = "drain", !.wait = processesing,
                   !.before = {c \in DOMAIN calls : calls[c].pc = "ready" /\ calls[c].sync}]
  /\ calls' = [c \in DOMAIN calls |->
                 IF calls[c].pc \in {"pending", "ready"}
                 THEN [calls[c] EXCEPT !.atClose = calls[c].pc, !.idxAtClose = calls[c].idx]
                 ELSE calls[c]]
  /\ UNCHANGED <<resVars, pkgVars, sortVars, ctxVars, utilVars, plugins, sortedPluginsCache, processesing, hooks>>

\* close() is called again, while the first close() is under way or after it:
\* `if (closed) return`
CloseAgain ==
  /\ closed
  /\ Len(closing.again) + 1 < MaxCloseCalls
  /\ closing' = [closing EXCEPT !.again = Append(@, closing.pc)]
  /\ UNCHANGED <<resVars, pkgVars, sortVars, ctxVars, utilVars, plugins, sortedPluginsCache, closed, processesing,
                 calls, hooks>>

\* the allSettled promise has resolved: close() runs hookParallel('buildEnd')
\* up to its first await
Drained(beh) ==
  /\ closing.pc = "drain"
  /\ closing.wait = {}
  /\ closing.before = {}
  /\ LET run == RunParallel("buildEnd", 1, {}, hooks, beh)
     IN /\ closing' = Teardown(run)
        /\ hooks' = run.hooks
  /\ sortedPluginsCache' = CacheSorted(sortedPluginsCache, "buildEnd")
  /\ UNCHANGED <<resVars, pkgVars, sortVars, ctxVars, utilVars, plugins, closed, processesing, calls>>

\* the promise of a buildEnd / closeBundle handler settles
SettleHook(h, p, ok) ==
  /\ hooks[h][p].status = "pending"
  /\ hooks' = [hooks EXCEPT ![h][p].status = IF ok THEN "fulfilled" ELSE "rejected"]
  /\ UNCHANGED <<resVars, pkgVars, sortVars, ctxVars, utilVars, plugins, sortedPluginsCache, closed, processesing, calls, closing>>

\* ResumeBeforeSequential that does not wait for Promise.all(parallelPromises)
ResumeBeforeSequential_NoAwait(beh) ==
  /\ closing.pc \in TeardownHooks
  /\ closing.await = "all"
  /\ LET h == closing.pc
         p == getSortedPlugins(h)[closing.idx].name
     IN /\ hooks' = Invoke(hooks, h, p, beh)
        /\ closing' = IF beh[p] = "throw"
                      THEN [closing EXCEPT !.pc = "failed", !.await = "none",
                                           !.parallelPromises = {}]
                      ELSE [closing EXCEPT !.await = "seq", !.parallelPromises = {}]
  /\ UNCHANGED <<resVars, pkgVars, sortVars, ctxVars, utilVars, plugins, sortedPluginsCache, closed, processesing, calls>>

\* hookParallel resumes after `await Promise.all(parallelPromises)` before a
\* sequential entry: it empties the list and invokes the sequential handler
ResumeBeforeSequential(beh) ==
  /\ closing.pc \in TeardownHooks
  /\ closing.await = "all"
  /\ LET h == closing.pc
         p == getSortedPlugins(h)[closing.idx].name
     IN \/ /\ SomeRejected(h, closing.parallelPromises)
           /\ closing' = [closing EXCEPT !.pc = "failed", !.await = "none"]
           /\ UNCHANGED hooks
        \/ /\ AllFulfilled(h, closing.parallelPromises)
           /\ hooks' = Invoke(hooks, h, p, beh)
           /\ closing' = IF beh[p] = "throw"
                         THEN [closing EXCEPT !.pc = "failed", !.await = "none",
                                              !.parallelPromises = {}]
                         ELSE [closing EXCEPT !.await = "seq", !.parallelPromises = {}]
  /\ UNCHANGED <<resVars, pkgVars, sortVars, ctxVars, utilVars, plugins, sortedPluginsCache, closed, processesing, calls>>

\* hookParallel resumes after the await of a sequential handler and goes on
\* with the loop
ResumeAfterSequential(beh) ==
  /\ closing.pc \in TeardownHooks
  /\ closing.await = "seq"
  /\ LET h == closing.pc
         p == getSortedPlugins(h)[closing.idx].name
     IN \/ /\ hooks[h][p].status = "rejected"
           /\ closing' = [closing EXCEPT !.pc = "failed", !.await = "none"]
           /\ UNCHANGED hooks
        \/ /\ hooks[h][p].status = "fulfilled"
           /\ LET run == RunParallel(h, closing.idx + 1, {}, hooks, beh)
              IN /\ closing' = Teardown(run)
                 /\ hooks' = run.hooks
  /\ UNCHANGED <<resVars, pkgVars, sortVars, ctxVars, utilVars, plugins, sortedPluginsCache, closed, processesing, calls>>

\* hookParallel resumes after its last `await Promise.all(parallelPromises)`:
\* close() goes on with hookParallel('closeBundle'), or returns
ResumeAfterAll(beh) ==
  /\ closing.pc \in TeardownHooks
  /\ closing.await = "final"
  /\ LET h == closing.pc
     IN \/ /\ SomeRejected(h, closing.parallelPromises)
           /\ closing' = [closing EXCEPT !.pc = "failed", !.await = "none"]
           /\ UNCHANGED <<hooks, sortedPluginsCache>>
        \/ /\ AllFulfilled(h, closing.parallelPromises)
           /\ h = "buildEnd"
           /\ LET run == RunParallel("closeBundle", 1, {}, hooks, beh)
              IN /\ closing' = Teardown(run)
                 /\ hooks' = run.hooks
           /\ sortedPluginsCache' = CacheSorted(sortedPluginsCache, "closeBundle")
        \/ /\ AllFulfilled(h, closing.parallelPromises)
           /\ h = "closeBundle"
           /\ closing' = [closing EXCEPT !.pc = "done", !.await = "none"]
           /\ UNCHANGED <<hooks, sortedPluginsCache>>
  /\ UNCHANGED <<resVars, pkgVars, sortVars, ctxVars, utilVars, plugins, closed, processesing, calls>>

(***************************************************************************)
(* Specification of the container: a plugin list of MaxPlugins plugins     *)
(* (an "absent" entry stands for a plugin without the hook), up to         *)
(* MaxCalls calls and one close().  Each plugin declares its hooks in one  *)
(* shape: the same entry kind for every hook of the plugin.                *)
(***************************************************************************)
PluginShapes ==
  {[hook |-> k, sequential |-> q] : k \in HookKinds, q \in BOOLEAN}

\* only an object entry carries `sequential`
WellFormed(shape) == shape.sequential => shape.hook \in ObjectKinds

RECURSIVE WithNames(_, _)
WithNames(shapes, from) ==
  IF shapes = <<>> THEN <<>>
  ELSE <<[name |-> from, hook |-> Head(shapes).hook,
          sequential |-> Head(shapes).sequential]>> \o WithNames(Tail(shapes), from + 1)

PluginLists ==
  {WithNames(l, 1) : l \in [1..MaxPlugins -> {sh \in PluginShapes : WellFormed(sh)}]}

SortIdle ==
  /\ sortIn = <<>>
  /\ sortOut = [called |-> FALSE, result |-> <<>>]

CtrInit ==
  /\ plugins \in PluginLists
  /\ sortedPluginsCache = [h \in CallHooks \cup TeardownHooks |-> [has |-> FALSE, list |-> <<>>]]
  /\ closed = FALSE
  /\ processesing = {}
  /\ calls = [c \in CallIds |-> IdleCall]
  /\ closing = NotClosing
  /\ hooks = NoHooks

Init == SortIdle /\ CtrInit /\ PkgIdle /\ ResIdle /\ CtxIdle /\ UtilIdle

\* the results the handlers of a hook hand back
ResultsOf(h) ==
  CASE h = "resolveId" ->
         {Result(k, "none", FALSE) : k \in {"null", "false", "str", "obj", "throw", "thisError"}}
    [] h = "load" ->
         {Result(k, "none", FALSE) : k \in {"null", "empty", "str", "obj", "throw", "thisError"}}
    [] OTHER ->
         {Result(k, "none", q) : k \in {"null", "empty", "str", "objNoCode", "throw"},
                                 q \in BOOLEAN}
           \cup {Result("obj", m, q) : m \in {"none", "ver", "nullified"}, q \in BOOLEAN}

\* the inMap option of transform()
InMaps == {"none", "ver", "nullified"}

Behaviours == [PluginNames -> HandlerBehaviours]

\* the results handlers hand back in the specification of the whole container
BasicResults == {Result(k, "none", FALSE) : k \in {"null", "str", "throw"}}

Next ==
  \/ \E c \in CallIds, h \in CallHooks, ssr \in BOOLEAN, async \in BOOLEAN :
       \E r \in BasicResults : StartCall(c, h, ssr, "none", r, async)
  \/ \E c \in CallIds : \E r \in BasicResults : SettleHandler(c, r)
  \/ \E c \in CallIds, async \in BOOLEAN :
       \E r \in BasicResults : Resume(c, r, async)
  \/ Close
  \/ \E beh \in Behaviours : Drained(beh)
  \/ \E h \in TeardownHooks, p \in PluginNames, ok \in BOOLEAN : SettleHook(h, p, ok)
  \/ \E beh \in Behaviours : ResumeBeforeSequential(beh)
  \/ \E beh \in Behaviours : ResumeAfterSequential(beh)
  \/ \E beh \in Behaviours : ResumeAfterAll(beh)

Spec == Init /\ [][Next]_vars

(***************************************************************************)
(* Specification of the teardown alone: no resolveId / load / transform    *)
(* call is made, and close() is called up to MaxCloseCalls times, at any   *)
(* point of the first close() or after it.                                 *)
(***************************************************************************)
CloseNext ==
  \/ Close
  \/ CloseAgain
  \/ \E beh \in Behaviours : Drained(beh)
  \/ \E h \in TeardownHooks, p \in PluginNames, ok \in BOOLEAN : SettleHook(h, p, ok)
  \/ \E beh \in Behaviours : ResumeBeforeSequential(beh)
  \/ \E beh \in Behaviours : ResumeAfterSequential(beh)
  \/ \E beh \in Behaviours : ResumeAfterAll(beh)

CloseSpec == Init /\ [][CloseNext]_vars

(***************************************************************************)
(* Specification of one call: the same container, never closed, with every *)
(* kind of handler result.                                                 *)
(***************************************************************************)
CallInit ==
  /\ Init
  /\ \A i \in 1..Len(plugins) : ~plugins[i].sequential

CallNext ==
  \/ \E c \in CallIds, h \in CallHooks, ssr \in BOOLEAN, inMap \in InMaps, async \in BOOLEAN :
       \E r \in ResultsOf(h) : StartCall(c, h, ssr, inMap, r, async)
  \/ \E c \in CallIds : \E r \in ResultsOf(calls[c].hook) : SettleHandler(c, r)
  \/ \E c \in CallIds, async \in BOOLEAN :
       \E r \in ResultsOf(calls[c].hook) : Resume(c, r, async)

CallSpec == CallInit /\ [][CallNext]_vars

(***************************************************************************)
(* Specification of concurrent transform calls: MaxConcurrent calls of     *)
(* container.transform on one container, never closed, interleaving at     *)
(* the await of each handler.  The module id of a call is its number.      *)
(***************************************************************************)
ConcurrentIds == 1..MaxConcurrent

ConcurrentInit ==
  /\ SortIdle
  /\ CtxIdle
  /\ UtilIdle
  /\ PkgIdle
  /\ ResIdle
  /\ plugins \in PluginLists
  /\ \A i \in 1..Len(plugins) : ~plugins[i].sequential
  /\ sortedPluginsCache = [h \in CallHooks \cup TeardownHooks |-> [has |-> FALSE, list |-> <<>>]]
  /\ closed = FALSE
  /\ processesing = {}
  /\ calls = [c \in ConcurrentIds |-> IdleCall]
  /\ closing = NotClosing
  /\ hooks = NoHooks

ConcurrentNext ==
  \/ \E c \in ConcurrentIds, ssr \in BOOLEAN, async \in BOOLEAN :
       \E r \in BasicResults : StartCall(c, "transform", ssr, "none", r, async)
  \/ \E c \in ConcurrentIds : \E r \in BasicResults : SettleHandler(c, r)
  \/ \E c \in ConcurrentIds, async \in BOOLEAN :
       \E r \in BasicResults : Resume(c, r, async)

ConcurrentSpec == ConcurrentInit /\ [][ConcurrentNext]_vars

(***************************************************************************)
(* Specification of close() with several calls in flight: MaxConcurrent    *)
(* non-SSR resolveId calls whose handlers return promises that fulfil with  *)
(* null or reject, and one close().                                        *)
(***************************************************************************)
DrainResults == {Result(k, "none", FALSE) : k \in {"null", "throw"}}

DrainNext ==
  \/ \E c \in ConcurrentIds : StartCall(c, "resolveId", FALSE, "none", NoResult, TRUE)
  \/ \E c \in ConcurrentIds : \E r \in DrainResults : SettleHandler(c, r)
  \/ \E c \in ConcurrentIds : Resume(c, NoResult, TRUE)
  \/ Close
  \/ \E beh \in Behaviours : Drained(beh)
  \/ \E h \in TeardownHooks, p \in PluginNames, ok \in BOOLEAN : SettleHook(h, p, ok)
  \/ \E beh \in Behaviours : ResumeAfterAll(beh)

DrainSpec == ConcurrentInit /\ [][DrainNext]_vars

(***************************************************************************)
(* The package manifest lookup (node/packages.ts).  Directories are the    *)
(* nodes 0..MaxDir of a tree whose root is 0; the manifest loaded from a   *)
(* directory is named by that directory.                                   *)
(***************************************************************************)
MaxDir == 4

Dirs == 0..MaxDir

\* path.dirname: the parent directory; the root is its own parent
dirname(d) == IF d = 0 THEN 0 ELSE (d - 1) \div 2

\* what <dir>/package.json is: no file, a manifest that parses, a file that
\* does not parse as JSON
ManifestKinds == {"none", "ok", "bad"}

\* fs.statSync(<dir>/package.json)?.isFile()
isFile(dir) == fs[dir] # "none"

\* loadPackageData(<dir>/package.json): JSON.parse throws on a bad file
\* ("threw"); otherwise the manifest's directory is the file's directory
loadPackageData(dir) ==
  [threw |-> fs[dir] = "bad", directory |-> dir]

\* the directory whose package.json one iteration of the walk inspects
packagePath(currentDirectory, baseDirectory) == baseDirectory

\* the directories the callback of traverseBetweenDirs is called with
RECURSIVE traverseBetweenDirs(_, _)
traverseBetweenDirs(longerDirectory, shorterDirectory) ==
  IF longerDirectory = shorterDirectory THEN {}
  ELSE {longerDirectory} \cup traverseBetweenDirs(dirname(longerDirectory), shorterDirectory)

\* packageCache.set for each directory of dirs
SetEach(cache, dirs, pkgData) ==
  [d \in DOMAIN cache \cup dirs |-> IF d \in dirs THEN pkgData ELSE cache[d]]

\* getFnpdCache that back-fills every directory, not the traversed span
getFnpdCache_FillsAll(cache, basedir, originalBasedir) ==
  IF basedir \in DOMAIN cache
  THEN [hit |-> TRUE, pkgData |-> <<cache[basedir]>>,
        cache |-> SetEach(cache, Dirs, cache[basedir])]
  ELSE [hit |-> FALSE, pkgData |-> <<>>, cache |-> cache]

getFnpdCache(cache, basedir, originalBasedir) ==
  IF basedir \in DOMAIN cache
  THEN [hit |-> TRUE, pkgData |-> <<cache[basedir]>>,
        cache |-> SetEach(cache, traverseBetweenDirs(originalBasedir, basedir), cache[basedir])]
  ELSE [hit |-> FALSE, pkgData |-> <<>>, cache |-> cache]

setFnpdCache(cache, pkgData, basedir, originalBasedir) ==
  SetEach(cache, {basedir} \cup traverseBetweenDirs(originalBasedir, basedir), pkgData)

\* the while loop of findNearestPackageData from currentDirectory on: what
\* the call returns (<<>> for null), whether it throws, and the cache it
\* leaves.  The catch block swallows whatever the try block throws, the parse
\* error of loadPackageData included, so no path of the loop throws.
RECURSIVE Walk(_, _, _, _)
Walk(cache, useCache, currentDirectory, baseDirectory) ==
  LET cached == getFnpdCache(cache, currentDirectory, baseDirectory)
      dir == packagePath(currentDirectory, baseDirectory)
      packageData == loadPackageData(dir)
      nextCurrentDirectory == dirname(currentDirectory)
  IN  IF useCache /\ cached.hit
      THEN [result |-> cached.pkgData, threw |-> FALSE, cache |-> cached.cache]
      ELSE IF isFile(dir) /\ ~packageData.threw
      THEN [result |-> <<[directory |-> packageData.directory]>>, threw |-> FALSE,
            cache |-> IF useCache
                      THEN setFnpdCache(cache, [directory |-> packageData.directory],
                                        currentDirectory, baseDirectory)
                      ELSE cache]
      ELSE IF nextCurrentDirectory = currentDirectory
      THEN [result |-> <<>>, threw |-> FALSE, cache |-> cache]
      ELSE Walk(cache, useCache, nextCurrentDirectory, baseDirectory)

\* one call findNearestPackageData(baseDirectory, packageCache?)
findNearestPackageData(baseDirectory, useCache) ==
  LET w == Walk(packageCache, useCache, baseDirectory, baseDirectory)
  IN  /\ fnpd' = [called |-> TRUE, baseDirectory |-> baseDirectory,
                  cached |-> useCache, result |-> w.result, threw |-> w.threw]
      /\ packageCache' = w.cache
      /\ UNCHANGED <<fs, sortVars, ctxVars, utilVars, ctrVars, resVars>>

PkgInit ==
  /\ SortIdle
  /\ CtxIdle
  /\ UtilIdle
  /\ CtrIdle
  /\ ResIdle
  /\ fs \in [Dirs -> ManifestKinds]
  /\ packageCache = <<>>
  /\ fnpd = NoLookup

PkgNext ==
  \E baseDirectory \in Dirs, useCache \in BOOLEAN :
    findNearestPackageData(baseDirectory, useCache)

PkgSpec == PkgInit /\ [][PkgNext]_vars

(***************************************************************************)
(* The bare-specifier resolver (node/plugins/resolve.ts, node/packages.ts) *)
(* for one package name, "pkg", and one deep subpath of it, "pkg/sub".     *)
(* The calls modelled are those of the dev server before its optimizer     *)
(* exists: no depsOptimizer, no externalize, options.packageCache present, *)
(* no pnp, preserveSymlinks false, manifests without a browser field.      *)
(***************************************************************************)
MaxPackageDir == 1

\* number of physical packages a node_modules/pkg entry can link to, less one
MaxStore == 1

\* the physical package directories
Stores == 0..MaxStore

\* the directories that hold a package.json or a node_modules/pkg
PackageDirs == 0..MaxPackageDir

\* options.root
root == 0

DeepestImporter == 3

\* the directories importers live in: the package directories and one
\* directory below them
ImporterDirs == PackageDirs \cup {DeepestImporter}

\* what <dir>/node_modules/pkg/package.json is: absent, or a manifest that parses
InstallKinds == {"none", "pkg"}

\* what the package.json of an importer's directory is: "peer" is a named
\* manifest that declares pkg as an optional peer dependency
ImporterKinds == {"none", "nameless", "ok", "peer"}

\* the manifest and files of pkg.  exports: no exports field, an object map,
\* or a string / array; listed: the map has an entry or pattern for the
\* subpath; file: the file that the subpath names exists; entry: the file
\* that the entry names exists; main: the manifest has no entry fields (the
\* entry is index.js), or its main names the directory lib, which holds a
\* package.json of its own without entry fields; browser: the manifest, and
\* the one in lib, have an object browser field that maps each file to a
\* browser build, which exists
Manifests ==
  {m \in [exports : {"none", "map", "other"}, listed : BOOLEAN,
          file : BOOLEAN, entry : BOOLEAN, main : {"none", "directory"},
          browser : BOOLEAN] : m.listed => m.exports = "map"}

\* the manifests without a browser field whose entry is a file
PlainManifests == {m \in Manifests : m.main = "none" /\ ~m.browser}

Specifiers == {"pkg", "pkg/sub"}

\* id.match(deepImportREGEX)
deepMatch(id) == id \in {"pkg/sub", "pkg/index"}

\* deepMatch ? '.' + id.slice(pkgId.length) : pkgId
unresolvedId(id) ==
  IF id = "pkg/sub" THEN "./sub" ELSE IF id = "pkg/index" THEN "./index" ELSE "pkg"

\* the PackageData loaded from <dir>/node_modules/pkg/package.json: its
\* directory is that of the real path of the file, and it is a new object at
\* every load.  With a packageCache a directory's entry is loaded at most
\* once, so the object is named by the directory it was loaded through.
InstalledData(dir) ==
  [directory |-> realpath[dir], inNodeModules |-> TRUE, loadedAt |-> dir]

\* the while loop of resolvePackageData from basedir on: the PackageData
\* found (<<>> for null), whether it was loaded by this call, and the rpd
\* keys of the cache it leaves
getRpdCache(cache, basedir, originalBasedir) ==
  IF basedir \in DOMAIN cache
  THEN [hit |-> TRUE, pkgData |-> <<cache[basedir]>>,
        cache |-> SetEach(cache, traverseBetweenDirs(originalBasedir, basedir), cache[basedir])]
  ELSE [hit |-> FALSE, pkgData |-> <<>>, cache |-> cache]

\* a cache that keeps only the keys just set
setRpdCache_Replaces(cache, pkgData, basedir, originalBasedir) ==
  [d \in {basedir} \cup traverseBetweenDirs(originalBasedir, basedir) |-> pkgData]

setRpdCache(cache, pkgData, basedir, originalBasedir) ==
  SetEach(cache, {basedir} \cup traverseBetweenDirs(originalBasedir, basedir), pkgData)

RECURSIVE resolvePackageData(_, _, _)
resolvePackageData(cache, basedir, originalBasedir) ==
  LET cached == getRpdCache(cache, basedir, originalBasedir)
      nextBasedir == dirname(basedir)
  IN  IF cached.hit
      THEN [result |-> cached.pkgData, loaded |-> FALSE, cache |-> cached.cache]
      ELSE IF installed[basedir] = "pkg"
      THEN [result |-> <<InstalledData(basedir)>>, loaded |-> TRUE,
            cache |-> setRpdCache(cache, InstalledData(basedir), basedir, originalBasedir)]
      ELSE IF nextBasedir = basedir
      THEN [result |-> <<>>, loaded |-> FALSE, cache |-> cache]
      ELSE resolvePackageData(cache, nextBasedir, originalBasedir)

\* findNearestMainPackageData(basedir, packageCache): the recursion ends in a
\* RangeError (threw) when it calls itself with the arguments and the cache
\* it was called with
RECURSIVE findNearestMainPackageData(_, _)
findNearestMainPackageData(cache, basedir) ==
  LET w == Walk(cache, TRUE, basedir, basedir)
      nearestPackage == w.result[1]
      next == dirname(nearestPackage.directory)
  IN  IF w.result = <<>>
      THEN [result |-> <<>>, threw |-> FALSE, cache |-> w.cache]
      ELSE IF fs[nearestPackage.directory] # "nameless"
      THEN [result |-> w.result, threw |-> FALSE, cache |-> w.cache]
      ELSE IF next = basedir /\ w.cache = cache
      THEN [result |-> <<>>, threw |-> TRUE, cache |-> cache]
      ELSE findNearestMainPackageData(w.cache, next)

\* the `this` of a function that is called detached from its object
Detached == <<>>

\* webResolvedImports / nodeResolvedImports of a PackageData just loaded
EmptyImports == [web |-> <<>>, node |-> <<>>]

\* PackageData.getResolvedCache, called with thisArg as `this`, over the
\* resolution caches imports: reading this.webResolvedImports of an
\* undefined `this` raises a TypeError
getResolvedCache(thisArg, imports, key, targetWeb) ==
  IF thisArg = Detached THEN [threw |-> TRUE, value |-> <<>>]
  ELSE LET own == imports[thisArg[1]]
           map == IF targetWeb THEN own.web ELSE own.node
       IN  [threw |-> FALSE, value |-> IF key \in DOMAIN map THEN <<map[key]>> ELSE <<>>]

\* PackageData.setResolvedCache, called with thisArg as `this`
setResolvedCache(thisArg, imports, key, entry, targetWeb) ==
  IF thisArg = Detached THEN [threw |-> TRUE, imports |-> imports]
  ELSE [threw |-> FALSE,
        imports |-> [imports EXCEPT ![thisArg[1]] =
                       IF targetWeb THEN [@ EXCEPT !.web = SetEach(@, {key}, entry)]
                       ELSE [@ EXCEPT !.node = SetEach(@, {key}, entry)]]]

\* what a resolution step hands back: a path, undefined or a thrown error,
\* the resolution caches it leaves and the number of tryFsResolve probes
Resolved(path, imports, probes) ==
  [kind |-> "id", error |-> "", result |-> <<path>>, imports |-> imports, probes |-> probes]

NotResolved(imports, probes) ==
  [kind |-> "undefined", error |-> "", result |-> <<>>, imports |-> imports, probes |-> probes]

Threw(error, imports, probes) ==
  [kind |-> "throw", error |-> error, result |-> <<>>, imports |-> imports, probes |-> probes]

\* mapWithBrowserField(relativePathInPkgDir, browserField) of a browser field
\* that maps each file to its browser build
mapWithBrowserField(relativeId) ==
  IF relativeId \in {"index.js", "./index"} THEN "./browser.js"
  ELSE IF relativeId = "./sub" THEN "./sub.browser.js"
  ELSE relativeId

\* the file tryFsResolve(path.join(directory, relativeId), ...) finds, as a
\* path below the package directory: ./index and ./sub are found with the
\* extension .js
FileOf(relativeId) ==
  IF relativeId \in {"index.js", "./index"} THEN "index.js"
  ELSE IF relativeId = "./cjs.js" THEN "cjs.js"
  ELSE IF relativeId = "./esm.js" THEN "esm.js"
  ELSE IF relativeId = "./sub" THEN "sub.js"
  ELSE IF relativeId = "./browser.js" THEN "browser.js"
  ELSE IF relativeId = "./sub.browser.js" THEN "sub.browser.js"
  ELSE relativeId

\* whether that file exists: index.js is the entry of a manifest without
\* exports and entry fields
FileExists(relativeId) ==
  IF relativeId \in {"./browser.js", "./sub.browser.js", "./cjs.js", "./esm.js"} THEN TRUE
  ELSE IF FileOf(relativeId) = "index.js" /\ manifest.exports = "none" /\ manifest.main = "none"
  THEN manifest.entry
  ELSE manifest.file

\* resolveDeepImport(id, pkg, targetWeb, options): getResolvedCache and
\* setResolvedCache are taken out of pkg by destructuring and called bare
resolveDeepImport(id, pkg, targetWeb, options, imports) ==
  LET cache == getResolvedCache(Detached, imports, id, targetWeb)
      exposed == manifest.exports = "map" /\ manifest.listed
      relativeId == IF manifest.exports = "none" /\ targetWeb /\ manifest.browser
                    THEN mapWithBrowserField(id) ELSE id
      resolved == [package |-> pkg, file |-> FileOf(relativeId)]
      stored == setResolvedCache(Detached, imports, id, resolved, targetWeb)
  IN  IF cache.threw THEN Threw("TypeError", imports, 0)
      ELSE IF cache.value # <<>> THEN Resolved(cache.value[1], imports, 0)
      ELSE IF manifest.exports # "none" /\ ~exposed THEN Threw("Error", imports, 0)
      ELSE IF ~FileExists(relativeId) THEN NotResolved(imports, 1)
      ELSE IF stored.threw THEN Threw("TypeError", imports, 1)
      ELSE Resolved(resolved, stored.imports, 1)

\* tryCleanFsResolve of the directory lib: resolvePackageEntry(dirPath, pkg,
\* targetWeb, options) on the PackageData just loaded from lib/package.json,
\* whose resolution caches are empty
resolveNestedEntry(targetWeb) ==
  LET cached == getResolvedCache(Detached, <<>>, ".", targetWeb)
      entry == IF targetWeb /\ manifest.browser THEN mapWithBrowserField("index.js")
               ELSE "index.js"
      stored == setResolvedCache(Detached, <<>>, ".", entry, targetWeb)
  IN  IF cached.threw THEN [kind |-> "throw", file |-> ""]
      ELSE IF (entry = "index.js" => manifest.entry) /\ ~stored.threw
      THEN [kind |-> "id", file |-> IF entry = "index.js" THEN "lib/index.js" ELSE "lib/browser.js"]
      ELSE [kind |-> "throw", file |-> ""]

\* resolveExportsOrImports(packageJson, '.', options, targetWeb, 'exports')
\* for an exports map { import: './esm.js', require: './cjs.js' }
resolveExportsOrImports(options) ==
  IF options.isRequire THEN "./cjs.js" ELSE "./esm.js"

\* resolvePackageEntry(id, pkg, targetWeb, options): an error raised inside
\* its try block, and an entry that names no file, end in packageEntryFailure
resolvePackageEntry(id, pkg, targetWeb, options, imports) ==
  LET cached == getResolvedCache(Detached, imports, ".", targetWeb)
      entry == IF manifest.exports = "conditions" THEN resolveExportsOrImports(options)
               ELSE IF manifest.main = "directory" THEN "lib"
               ELSE IF targetWeb /\ manifest.browser THEN mapWithBrowserField("index.js")
               ELSE "index.js"
      \* tryFsResolve(entryPointPath, options, true, true, skipPackageJson)
      nested == resolveNestedEntry(TRUE)
      found == IF manifest.main = "directory" THEN nested.kind = "id"
               ELSE IF entry = "index.js" THEN manifest.entry
               ELSE FileExists(entry)
      resolvedEntryPoint ==
        [package |-> pkg,
         file |-> IF manifest.main = "directory" THEN nested.file ELSE FileOf(entry)]
      stored == setResolvedCache(Detached, imports, ".", resolvedEntryPoint, targetWeb)
  IN  IF cached.threw THEN Threw("TypeError", imports, 0)
      ELSE IF cached.value # <<>> THEN Resolved(cached.value[1], imports, 0)
      ELSE IF found /\ ~stored.threw
      THEN Resolved(resolvedEntryPoint, stored.imports, 1)
      ELSE Threw("Error", imports, 1)

\* const resolveId = deepMatch ? resolveDeepImport : resolvePackageEntry
resolveId(id, pkg, targetWeb, options, imports) ==
  IF deepMatch(id) THEN resolveDeepImport(unresolvedId(id), pkg, targetWeb, options, imports)
  ELSE resolvePackageEntry(unresolvedId(id), pkg, targetWeb, options, imports)

\* the id of an optional peer dependency of the manifest in directory owner
OptionalPeerDep(id, owner) == [optionalPeerDep |-> id, owner |-> owner]

\* one call tryNodeResolve(id, importer, options, targetWeb) whose importer
\* makes basedir the directory the lookup starts from
tryNodeResolve(id, basedir, targetWeb, tryEsmOnly, isRequire) ==
  \E found \in {resolvePackageData(rpdCache, basedir, basedir)} :
    LET pkg == found.result[1]
        loaded == IF found.loaded THEN SetEach(resolvedImports, {pkg}, EmptyImports)
                  ELSE resolvedImports
        main == findNearestMainPackageData(packageCache, basedir)
        mainPkg == fs[main.result[1].directory]
        first == resolveId(id, pkg, targetWeb, [isRequire |-> isRequire], loaded)
        \* { ...options, isRequire: false, mainFields: ..., extensions: ... }
        second == resolveId(id, pkg, targetWeb, [isRequire |-> FALSE], first.imports)
        missing ==
          IF basedir = root THEN NotResolved(loaded, 0)
          ELSE IF main.threw THEN Threw("RangeError", loaded, 0)
          ELSE IF main.result # <<>> /\ mainPkg = "peer" /\ id = "pkg"
          THEN Resolved(OptionalPeerDep(id, main.result[1].directory), loaded, 0)
          ELSE NotResolved(loaded, 0)
    IN  \E out \in {IF found.result = <<>> THEN missing
                     ELSE IF first.kind = "throw" /\ ~tryEsmOnly THEN first
                     ELSE IF first.kind # "id" /\ tryEsmOnly
                     THEN [second EXCEPT !.probes = @ + first.probes]
                     ELSE first} :
          /\ tnr' = [called |-> TRUE, id |-> id, basedir |-> basedir, targetWeb |-> targetWeb,
                     tryEsmOnly |-> tryEsmOnly, isRequire |-> isRequire, kind |-> out.kind,
                     error |-> out.error, result |-> out.result, probes |-> out.probes]
          /\ rpdCache' = found.cache
          /\ resolvedImports' = out.imports
          /\ packageCache' = IF found.result = <<>> /\ basedir # root THEN main.cache
                             ELSE packageCache
          /\ UNCHANGED <<fs, fnpd, installed, manifest, realpath, rpd, tcfr, sortVars, ctxVars,
                         utilVars, ctrVars>>

\* nothing outside PackageDirs holds a package.json or a node_modules/pkg, and
\* no node_modules/pkg is a symbolic link
ResolveInit ==
  /\ SortIdle
  /\ CtxIdle
  /\ UtilIdle
  /\ CtrIdle
  /\ fs \in {f \in [Dirs -> ImporterKinds] : \A d \in Dirs \ PackageDirs : f[d] = "none"}
  /\ packageCache = <<>>
  /\ fnpd = NoLookup
  /\ installed \in {f \in [Dirs -> InstallKinds] : \A d \in Dirs \ PackageDirs : f[d] = "none"}
  /\ manifest \in PlainManifests
  /\ rpdCache = <<>>
  /\ resolvedImports = <<>>
  /\ tnr = NoResolve
  /\ realpath = [d \in Dirs |-> d]
  /\ rpd = NoPackage
  /\ tcfr = <<>>

\* the calls are those for import statements: options.isRequire is false
ResolveNext ==
  \E id \in Specifiers, basedir \in ImporterDirs, targetWeb \in BOOLEAN,
     tryEsmOnly \in BOOLEAN :
    tryNodeResolve(id, basedir, targetWeb, tryEsmOnly, FALSE)

ResolveSpec == ResolveInit /\ [][ResolveNext]_vars

\* the specifiers of the entry and of the subpaths ./index and ./sub
EntrySpecifiers == {"pkg", "pkg/index", "pkg/sub"}

\* a manifest whose exports field is { import: './esm.js', require: './cjs.js' },
\* both files existing
ConditionalManifest ==
  [exports |-> "conditions", listed |-> FALSE, file |-> TRUE, entry |-> TRUE,
   main |-> "none", browser |-> FALSE]

\* no importer has a package.json; the manifest of pkg has no exports field,
\* or one with conditions
EntryInit ==
  /\ SortIdle
  /\ CtxIdle
  /\ UtilIdle
  /\ CtrIdle
  /\ fs = [d \in Dirs |-> "none"]
  /\ packageCache = <<>>
  /\ fnpd = NoLookup
  /\ installed \in {f \in [Dirs -> InstallKinds] : \A d \in Dirs \ PackageDirs : f[d] = "none"}
  /\ manifest \in {m \in Manifests : m.exports = "none"} \cup {ConditionalManifest}
  /\ rpdCache = <<>>
  /\ resolvedImports = <<>>
  /\ tnr = NoResolve
  /\ realpath = [d \in Dirs |-> d]
  /\ rpd = NoPackage
  /\ tcfr = <<>>

EntryNext ==
  \E id \in EntrySpecifiers, basedir \in ImporterDirs, targetWeb \in BOOLEAN,
     tryEsmOnly \in BOOLEAN, isRequire \in BOOLEAN :
    tryNodeResolve(id, basedir, targetWeb, tryEsmOnly, isRequire)

EntrySpec == EntryInit /\ [][EntryNext]_vars

(***************************************************************************)
(* Filesystem probing (resolve.ts tryCleanFsResolve) of one candidate      *)
(* path.  A path probed is [base, ext]: base is the candidate ("file"),    *)
(* its TypeScript siblings ("ts", "tsx"), the prefixed candidate           *)
(* ("prefixed"), the nested manifest ("package.json"), the index file      *)
(* ("index") or the prefixed index file ("prefixedIndex"); ext is the      *)
(* position in options.extensions of the extension appended, 0 for none.   *)
(***************************************************************************)
\* options.extensions.length is at most MaxExtensions
MaxExtensions == 2

\* the number of probed paths other than the candidate that exist at once
MaxExisting == 2

Probe(base, ext) == [base |-> base, ext |-> ext]

Probes ==
  {Probe(b, 0) : b \in {"ts", "tsx", "prefixed", "package.json"}}
    \cup {Probe(b, e) : b \in {"file", "prefixed", "index", "prefixedIndex"},
                       e \in 1..MaxExtensions}

\* the arguments and the files of one call.  stat: what tryStatSync(file)
\* finds; fileExt: the extension of the candidate, ".js", another of
\* .mjs / .cjs / .jsx ("jsLike") or anything else; extensions: the length
\* of options.extensions; exists: the other paths that are files
ProbeInputs ==
  [stat : {"none", "file", "dir"}, fileExt : {"js", "jsLike", "other"},
   isFromTsImporter : BOOLEAN, extensions : 0..MaxExtensions, tryPrefix : BOOLEAN,
   tryIndex : BOOLEAN, skipPackageJson : BOOLEAN, targetWeb : BOOLEAN,
   exists : {S \in SUBSET Probes : Cardinality(S) <= MaxExisting}]

\* tryResolveRealFile(file, preserveSymlinks)
tryResolveRealFile(in, probe) == IF probe \in in.exists THEN <<probe>> ELSE <<>>

\* tryResolveRealFileWithExtensions(filePath, extensions, preserveSymlinks)
\* from the i-th extension on
RECURSIVE tryResolveRealFileWithExtensions(_, _, _)
tryResolveRealFileWithExtensions(in, base, i) ==
  IF i > in.extensions THEN <<>>
  ELSE IF tryResolveRealFile(in, Probe(base, i)) # <<>> THEN <<Probe(base, i)>>
  ELSE tryResolveRealFileWithExtensions(in, base, i + 1)

\* the first of a list of probe results that found a file
RECURSIVE FirstOf(_)
FirstOf(results) ==
  IF results = <<>> THEN <<>>
  ELSE IF Head(results) # <<>> THEN Head(results)
  ELSE FirstOf(Tail(results))

\* tryCleanFsResolve(file, options, tryIndex, targetWeb, skipPackageJson):
\* [kind, error, result].  The manifest of a nested package.json is handed to
\* resolvePackageEntry, and what that raises is raised again (resolve.ts:724).
tryCleanFsResolve(in) ==
  LET possibleJsToTs == in.isFromTsImporter /\ in.fileExt \in {"js", "jsLike"}
      siblings ==
        FirstOf(<<IF possibleJsToTs THEN tryResolveRealFile(in, Probe("ts", 0)) ELSE <<>>,
                  IF possibleJsToTs /\ in.fileExt = "js"
                  THEN tryResolveRealFile(in, Probe("tsx", 0)) ELSE <<>>,
                  tryResolveRealFileWithExtensions(in, "file", 1),
                  IF in.tryPrefix THEN tryResolveRealFile(in, Probe("prefixed", 0)) ELSE <<>>,
                  IF in.tryPrefix THEN tryResolveRealFileWithExtensions(in, "prefixed", 1)
                  ELSE <<>>>>)
      indexes ==
        FirstOf(<<tryResolveRealFileWithExtensions(in, "index", 1),
                  IF in.tryPrefix THEN tryResolveRealFileWithExtensions(in, "prefixedIndex", 1)
                  ELSE <<>>>>)
      nested == resolvePackageEntry("pkg", [directory |-> "file"], in.targetWeb,
                                    [isRequire |-> FALSE], <<>>)
      found(res) == [kind |-> IF res = <<>> THEN "undefined" ELSE "id", error |-> "",
                     result |-> res]
  IN  IF in.stat = "file" THEN found(<<Probe("file", 0)>>)
      ELSE IF (possibleJsToTs \/ in.extensions > 0 \/ in.tryPrefix) /\ siblings # <<>>
      THEN found(siblings)
      ELSE IF in.tryIndex /\ in.stat = "dir"
      THEN IF ~in.skipPackageJson /\ Probe("package.json", 0) \in in.exists
           THEN [kind |-> nested.kind, error |-> nested.error, result |-> nested.result]
           ELSE found(indexes)
      ELSE found(<<>>)

\* the nested package.json: no exports field, and its entry file exists
NestedManifest ==
  [exports |-> "none", listed |-> FALSE, file |-> FALSE, entry |-> TRUE,
   main |-> "none", browser |-> FALSE]

\* one call of tryCleanFsResolve with the arguments and files drawn
TryCleanFsResolveCall ==
  /\ ~tcfr.called
  /\ tcfr' = [tcfr EXCEPT !.called = TRUE, !.out = tryCleanFsResolve(tcfr.in)]
  /\ UNCHANGED <<installed, manifest, rpdCache, resolvedImports, tnr, realpath, rpd, pkgVars,
                 sortVars, ctxVars, utilVars, ctrVars>>

ProbeInit ==
  /\ SortIdle
  /\ CtxIdle
  /\ UtilIdle
  /\ CtrIdle
  /\ PkgIdle
  /\ installed = <<>>
  /\ manifest = NestedManifest
  /\ rpdCache = <<>>
  /\ resolvedImports = <<>>
  /\ tnr = NoResolve
  /\ realpath = <<>>
  /\ rpd = NoPackage
  /\ \E in \in ProbeInputs :
       tcfr = [called |-> FALSE, in |-> in, out |-> [kind |-> "undefined", error |-> "",
                                                    result |-> <<>>]]

ProbeNext == TryCleanFsResolveCall

ProbeSpec == ProbeInit /\ [][ProbeNext]_vars

(***************************************************************************)
(* Specification of findNearestMainPackageData alone, over directories     *)
(* whose package.json is absent, nameless or named.                        *)
(***************************************************************************)
\* one call findNearestMainPackageData(basedir, packageCache)
FindNearestMainCall(basedir) ==
  LET main == findNearestMainPackageData(packageCache, basedir)
  IN  /\ fnpd' = [called |-> TRUE, baseDirectory |-> basedir, cached |-> TRUE,
                  result |-> main.result, threw |-> main.threw]
      /\ packageCache' = main.cache
      /\ UNCHANGED <<fs, sortVars, ctxVars, utilVars, ctrVars, resVars>>

MainInit ==
  /\ SortIdle
  /\ CtxIdle
  /\ UtilIdle
  /\ CtrIdle
  /\ ResIdle
  /\ fs \in [Dirs -> {"none", "nameless", "ok"}]
  /\ packageCache = <<>>
  /\ fnpd = NoLookup

MainNext == \E basedir \in Dirs : FindNearestMainCall(basedir)

MainSpec == MainInit /\ [][MainNext]_vars

(***************************************************************************)
(* Specification of resolvePackageData alone, over node_modules/pkg        *)
(* entries that are symbolic links into a store of physical packages.      *)
(***************************************************************************)
\* one call resolvePackageData(pkgName, basedir, false, packageCache)
ResolvePackageDataCall(basedir) ==
  LET found == resolvePackageData(rpdCache, basedir, basedir)
  IN  /\ rpd' = [called |-> TRUE, basedir |-> basedir, result |-> found.result]
      /\ rpdCache' = found.cache
      /\ UNCHANGED <<installed, manifest, resolvedImports, tnr, realpath, tcfr, pkgVars,
                     sortVars, ctxVars, utilVars, ctrVars>>

LinkInit ==
  /\ SortIdle
  /\ CtxIdle
  /\ UtilIdle
  /\ CtrIdle
  /\ PkgIdle
  /\ installed \in [Dirs -> InstallKinds]
  /\ realpath \in [Dirs -> Stores]
  /\ manifest = <<>>
  /\ rpdCache = <<>>
  /\ resolvedImports = <<>>
  /\ tnr = NoResolve
  /\ rpd = NoPackage
  /\ tcfr = <<>>

LinkNext == \E basedir \in Dirs : ResolvePackageDataCall(basedir)

LinkSpec == LinkInit /\ [][LinkNext]_vars

(***************************************************************************)
(* The ModuleInfo objects of the container (proxy.ts ModuleInfoProxy,      *)
(* getModuleInfo, updateModuleInfo).  A meta object is the set of its      *)
(* keys; <<>> stands for undefined / null and <<v>> for the value v.       *)
(***************************************************************************)

MaxMetaKeys == 1

ModuleIds == {"a", "b"}

\* the objects a module's meta can be
Metas == SUBSET (1..MaxMetaKeys)

\* Object.freeze({})
EMPTY_OBJECT == {}

\* the property names read: the two of the proxy's target, then, one that
\* every object inherits from Object.prototype, and two of Rollup's
\* ModuleInfo that the container does not keep
Properties == {"id", "meta", "then", "toString", "code", "importedIds"}

\* key in info, for the target { id, meta } of a proxy
In(key) == key \in {"id", "meta", "toString"}

\* a handler that throws for every key the target does not have
ModuleInfoProxy_get_NoThen(key) ==
  IF In(key) THEN IF key = "toString" THEN "inherited" ELSE key
  ELSE "throw"

\* ModuleInfoProxy.get(info, key): which value the read gives (the target's
\* id or meta, a property inherited from Object.prototype, undefined) or
\* "throw" for the error 'The "<key>" property of ModuleInfo is not supported.'
ModuleInfoProxy_get(key) ==
  IF In(key) THEN IF key = "toString" THEN "inherited" ELSE key
  ELSE IF key = "then" THEN "undefined"
  ELSE "throw"

\* getModuleInfo(id): the target of the proxy returned (<<>> for null) and
\* the module graph it leaves
getModuleInfo(graph, id) ==
  IF id \notin DOMAIN graph THEN [info |-> <<>>, modules |-> graph]
  ELSE IF graph[id].info # <<>> THEN [info |-> graph[id].info, modules |-> graph]
  ELSE LET info == [id |-> id,
                    meta |-> IF graph[id].meta = <<>> THEN EMPTY_OBJECT ELSE graph[id].meta[1]]
       IN  [info |-> <<info>>, modules |-> [graph EXCEPT ![id].info = <<info>>]]

\* updateModuleInfo(id, { meta })
updateModuleInfo(graph, id, meta) ==
  LET got == getModuleInfo(graph, id)
  IN  IF meta = <<>> THEN graph
      ELSE IF got.info = <<>> THEN got.modules
      ELSE [got.modules EXCEPT ![id].info = <<[got.info[1] EXCEPT !.meta = @ \cup meta[1]]>>]

\* moduleGraph.ensureEntryFromUrl: a module enters the graph, with the meta
\* its load gave it
EnsureEntry(id, meta) ==
  /\ id \notin DOMAIN modules
  /\ modules' = [m \in DOMAIN modules \cup {id} |->
                   IF m = id THEN [meta |-> meta, info |-> <<>>] ELSE modules[m]]
  /\ UNCHANGED <<access, logger, console, warnCalls, sortVars, ctrVars, pkgVars, resVars,
               utilVars>>

GetModuleInfoCall(id) ==
  /\ modules' = getModuleInfo(modules, id).modules
  /\ UNCHANGED <<access, logger, console, warnCalls, sortVars, ctrVars, pkgVars, resVars,
               utilVars>>

UpdateModuleInfoCall(id, meta) ==
  /\ modules' = updateModuleInfo(modules, id, meta)
  /\ UNCHANGED <<access, logger, console, warnCalls, sortVars, ctrVars, pkgVars, resVars,
               utilVars>>

\* a plugin reads the property key of the ModuleInfo that getModuleInfo(id)
\* gave it
ReadProperty(id, key) ==
  /\ id \in DOMAIN modules
  /\ modules[id].info # <<>>
  /\ access' = [called |-> TRUE, id |-> id, key |-> key, kind |-> ModuleInfoProxy_get(key)]
  /\ UNCHANGED <<modules, logger, console, warnCalls, sortVars, ctrVars, pkgVars, resVars,
               utilVars>>

InfoInit ==
  /\ SortIdle
  /\ UtilIdle
  /\ CtrIdle
  /\ PkgIdle
  /\ ResIdle
  /\ modules = <<>>
  /\ access = NoAccess
  /\ logger = <<>>
  /\ console = <<>>
  /\ warnCalls = <<>>

InfoNext ==
  \/ \E id \in ModuleIds, meta \in {<<>>} \cup {<<m>> : m \in Metas} : EnsureEntry(id, meta)
  \/ \E id \in ModuleIds : GetModuleInfoCall(id)
  \/ \E id \in ModuleIds, meta \in {<<>>} \cup {<<m>> : m \in Metas} :
       UpdateModuleInfoCall(id, meta)
  \/ \E id \in ModuleIds, key \in Properties : ReadProperty(id, key)

InfoSpec == InfoInit /\ [][InfoNext]_vars

(***************************************************************************)
(* The context methods that serve mode does not support (proxy.ts          *)
(* warnIncompatibleMethod, Context.emitFile, Context.setAssetSource) and   *)
(* the logger they write to (logger.ts createLogger).                      *)
(***************************************************************************)

MaxWarnCalls == 3

LogLevels == [silent |-> 0, error |-> 1, warn |-> 2, info |-> 3]

\* the message of warnIncompatibleMethod(method, plugin)
IncompatibleMessage(method, plugin) == [method |-> method, plugin |-> plugin]

\* output(type, msg) of the logger: nothing above the threshold; every
\* message when the screen cannot be cleared; otherwise only a message that
\* repeats the last one, with the number of repetitions
output(log, lines, type, msg) ==
  IF LogLevels[type] > log.threshold THEN [logger |-> log, console |-> lines]
  ELSE IF ~log.canClearScreen
  THEN [logger |-> log, console |-> Append(lines, [msg |-> msg, times |-> 1])]
  ELSE IF <<type>> = log.lastType /\ <<msg>> = log.lastMsg
  THEN [logger |-> [log EXCEPT !.sameCount = @ + 1],
        console |-> Append(lines, [msg |-> msg, times |-> log.sameCount + 2])]
  ELSE [logger |-> [log EXCEPT !.sameCount = 0, !.lastMsg = <<msg>>, !.lastType = <<type>>],
        console |-> lines]

\* logger.warn(msg)
warn(log, lines, msg) ==
  output([log EXCEPT !.hasWarned = TRUE], lines, "warn", msg)

\* warnIncompatibleMethod(method, plugin): what it does to the logger
warnIncompatibleMethod(method, plugin) ==
  LET out == warn(logger, console, IncompatibleMessage(method, plugin))
  IN  /\ Len(warnCalls) < MaxWarnCalls
      /\ logger' = out.logger
      /\ console' = out.console
      /\ warnCalls' = Append(warnCalls, IncompatibleMessage(method, plugin))

\* the hooks whose handlers run with a Context
ContextHooks == {"buildStart"} \cup CallHooks \cup TeardownHooks

\* the _activePlugin of the Context that a handler of the plugin runs with:
\* buildStart creates the Context with the plugin, resolveId, load and
\* transform assign it before each handler, and close() hands one
\* `new Context()` to all buildEnd and closeBundle handlers, in which it stays
\* null (0)
ActivePluginOf(hook, plugin) == IF hook \in TeardownHooks THEN 0 ELSE plugin

\* a handler of the plugin for the hook calls a context method that does
\* warnIncompatibleMethod(method, this._activePlugin!.name): reading the name
\* of null raises a TypeError
IncompatibleMethodCall(method, hook, plugin) ==
  LET active == ActivePluginOf(hook, plugin)
  IN  /\ ctxCall' = <<[method |-> method, hook |-> hook, plugin |-> plugin,
                       kind |-> IF active = 0 THEN "TypeError" ELSE "returned"]>>
      /\ IF active = 0 THEN UNCHANGED <<logger, console, warnCalls>>
         ELSE warnIncompatibleMethod(method, plugin)
      /\ UNCHANGED <<modules, access, resolving, pos, frame, merged, hot, sortVars, ctrVars,
                     pkgVars, resVars>>

\* Context.emitFile(_assetOrFile)
emitFile(hook, plugin) == IncompatibleMethodCall("emitFile", hook, plugin)

\* Context.setAssetSource()
setAssetSource(hook, plugin) == IncompatibleMethodCall("setAssetSource", hook, plugin)

\* createLogger(level, options) on a terminal or not
LogInit ==
  /\ SortIdle
  /\ UtilIdle
  /\ CtrIdle
  /\ PkgIdle
  /\ ResIdle
  /\ modules = <<>>
  /\ access = NoAccess
  /\ \E level \in {"error", "info"}, canClearScreen \in BOOLEAN :
       logger = [canClearScreen |-> canClearScreen, threshold |-> LogLevels[level],
                 lastType |-> <<>>, lastMsg |-> <<>>, sameCount |-> 0, hasWarned |-> FALSE]
  /\ console = <<>>
  /\ warnCalls = <<>>

LogNext ==
  \/ \E hook \in ContextHooks, plugin \in 1..MaxPlugins : emitFile(hook, plugin)
  \/ \E hook \in ContextHooks, plugin \in 1..MaxPlugins : setAssetSource(hook, plugin)

LogSpec == LogInit /\ [][LogNext]_vars

(***************************************************************************)
(* proxy.ts  Context.resolve and container.resolveId: resolutions nested   *)
(* through this.resolve.  `resolving` is the stack of the pending          *)
(* container.resolveId calls, the innermost last.  A frame holds the       *)
(* options of the this.resolve call that started it, ctx._resolveSkips as  *)
(* skip (the empty set for undefined), the position idx of the loop in the *)
(* sorted plugins, and ctx._activePlugin as active (0 for null).           *)
(***************************************************************************)
\* number of plugins in the container of this specification
MaxResolvers == 3

\* number of resolutions nested in one another
MaxDepth == 5

\* skip = new Set(this._resolveSkips) without the copy of the enclosing skips
resolveSkip_OnlySelf(ctx, options) ==
  IF options.skipSelf /\ ctx.active # 0 THEN {ctx.active} ELSE {}

\* Context.resolve: the skip set handed to container.resolveId
resolveSkip(ctx, options) ==
  IF options.skipSelf /\ ctx.active # 0 THEN ctx.skip \cup {ctx.active} ELSE {}

RECURSIVE NextHandler(_, _, _)
\* for (const plugin of getSortedPlugins('resolveId')): the position of the
\* first plugin from position `from` on that is not skipped, Len + 1 if none
NextHandler(sorted, skip, from) ==
  IF from > Len(sorted) THEN from
  ELSE IF sorted[from].name \in skip THEN NextHandler(sorted, skip, from + 1)
       ELSE from

\* the loop of container.resolveId from position `from` on, in the frame on
\* top of the stack: the next handler is called with ctx._activePlugin set, or
\* the loop ends, the resolution returns null and its frame is gone
LoopResolveId(stack, frm, from) ==
  LET sorted == getSortedPlugins("resolveId")
      at == NextHandler(sorted, frm.skip, from)
  IN  IF at > Len(sorted) THEN stack
      ELSE Append(stack, [frm EXCEPT !.idx = at, !.active = sorted[at].name])

\* container.resolveId(rawId, importer, options) with options.skip = skip
StartResolveId(stack, options, skip) ==
  LoopResolveId(stack, [options |-> options, skip |-> skip, idx |-> 0, active |-> 0], 1)

SkipUnchanged ==
  UNCHANGED <<plugins, closed, processesing, calls, closing, hooks, ctxCall, pos, frame,
              merged, hot, sortVars, pkgVars, resVars, ctxVars>>

\* the server resolves an id: container.resolveId without options.skip
ContainerResolveId ==
  /\ resolving = <<>>
  /\ resolving' = StartResolveId(<<>>, [skipSelf |-> FALSE], {})
  /\ sortedPluginsCache' = CacheSorted(sortedPluginsCache, "resolveId")
  /\ SkipUnchanged

\* the running handler calls this.resolve(id, importer, { skipSelf })
ContextResolve(skipSelf) ==
  /\ resolving # <<>>
  /\ Len(resolving) < MaxDepth
  /\ LET ctx == resolving[Len(resolving)]
         options == [skipSelf |-> skipSelf]
     IN  resolving' = StartResolveId(resolving, options, resolveSkip(ctx, options))
  /\ UNCHANGED sortedPluginsCache
  /\ SkipUnchanged

\* the running handler returns: null or undefined (the loop continues) or an
\* id (the loop breaks and the resolution returns)
HandlerReturns(result) ==
  /\ resolving # <<>>
  /\ LET ctx == resolving[Len(resolving)]
         rest == SubSeq(resolving, 1, Len(resolving) - 1)
     IN  resolving' = IF result = "null" THEN LoopResolveId(rest, ctx, ctx.idx + 1)
                      ELSE rest
  /\ UNCHANGED sortedPluginsCache
  /\ SkipUnchanged

SkipInit ==
  /\ SortIdle
  /\ PkgIdle
  /\ ResIdle
  /\ CtxIdle
  /\ UtilIdle
  /\ plugins \in {Named(k, 1) : k \in [1..MaxResolvers -> {"absent", "fn", "pre"}]}
  /\ sortedPluginsCache = [h \in CallHooks \cup TeardownHooks |-> [has |-> FALSE, list |-> <<>>]]
  /\ closed = FALSE
  /\ processesing = {}
  /\ calls = <<>>
  /\ closing = <<>>
  /\ hooks = <<>>

SkipNext ==
  \/ ContainerResolveId
  \/ \E skipSelf \in BOOLEAN : ContextResolve(skipSelf)
  \/ \E result \in {"null", "id"} : HandlerReturns(result)

SkipSpec == SkipInit /\ [][SkipNext]_vars

(***************************************************************************)
(* Source positions: positionToNumber, numberToPosition, generateCodeFrame *)
(* A source text is a sequence of characters, a line break among them; a   *)
(* `number | Position` value is a record tagged with its type.             *)
(***************************************************************************)
\* length of the source texts
MaxSource == 4

\* const range = 2
range == 2

NewLine == "\n"

Characters == {"a", NewLine}

Sources == SeqsUpTo(Characters, MaxSource)

Number(n) == [type |-> "number", n |-> n, line |-> 0, column |-> 0]

Position(line, column) == [type |-> "Position", n |-> 0, line |-> line, column |-> column]

Maximum(a, b) == IF a >= b THEN a ELSE b

Minimum(a, b) == IF a <= b THEN a ELSE b

RECURSIVE split(_)
\* source.split(newlineRegex)
split(source) ==
  IF source = <<>> THEN << <<>> >>
  ELSE LET rest == split(Tail(source))
       IN  IF Head(source) = NewLine THEN << <<>> >> \o rest
           ELSE << <<Head(source)>> \o Head(rest) >> \o Tail(rest)

\* Array.prototype.slice(0, end)
slice(lines, end) ==
  SubSeq(lines, 1, IF end < 0 THEN Maximum(Len(lines) + end, 0) ELSE Minimum(end, Len(lines)))

RECURSIVE reduce(_)
\* .reduce((numCharacters, line) => numCharacters + line.length + 1, 0)
reduce(lines) ==
  IF lines = <<>> THEN 0 ELSE Len(Head(lines)) + 1 + reduce(Tail(lines))

positionToNumber(source, position) ==
  IF position.type = "number" THEN position.n
  ELSE reduce(slice(split(source), position.line - 1)) + position.column

RECURSIVE ScanLines(_, _, _, _)
\* the loop of numberToPosition: { line, column } when it is left
ScanLines(lines, offset, numCharacters, line) ==
  IF lines = <<>> THEN Position(line, 0)
  ELSE LET lineLength == Len(Head(lines)) + 1
       IN  IF numCharacters + lineLength > offset
           THEN Position(line, offset - numCharacters + 1)
           ELSE ScanLines(Tail(lines), offset, numCharacters + lineLength, line + 1)

\* kind: "Position" or "throw" (offset is longer than source length)
numberToPosition(source, offset) ==
  IF offset.type # "number" THEN [kind |-> "Position", position |-> offset]
  ELSE IF offset.n > Len(source) THEN [kind |-> "throw", position |-> Position(0, 0)]
  ELSE [kind |-> "Position", position |-> ScanLines(split(source), offset.n, 0, 0)]

NoNumber == [called |-> FALSE, number |-> 0]

\* numberToPosition(source, offset)
NumberToPositionCall(source, offset) ==
  /\ pos = <<>>
  /\ pos' = <<[source |-> source, offset |-> offset,
               out |-> numberToPosition(source, Number(offset)), back |-> NoNumber]>>
  /\ UNCHANGED <<ctxCall, resolving, frame, merged, hot, sortVars, ctrVars, pkgVars, resVars,
                 ctxVars>>

\* positionToNumber(source, position) with the position numberToPosition gave
PositionToNumberCall ==
  /\ pos # <<>>
  /\ pos[1].out.kind = "Position"
  /\ ~pos[1].back.called
  /\ pos' = <<[pos[1] EXCEPT !.back = [called |-> TRUE,
                   number |-> positionToNumber(pos[1].source, pos[1].out.position)]]>>
  /\ UNCHANGED <<ctxCall, resolving, frame, merged, hot, sortVars, ctrVars, pkgVars, resVars,
                 ctxVars>>

PosInit == SortIdle /\ CtrIdle /\ PkgIdle /\ ResIdle /\ CtxIdle /\ UtilIdle

PosNext ==
  \/ \E source \in Sources, offset \in 0..(MaxSource + 1) :
       /\ offset <= Len(source) + 1
       /\ NumberToPositionCall(source, offset)
  \/ PositionToNumberCall

PosSpec == PosInit /\ [][PosNext]_vars

\* `${lineNum}${' '.repeat(...)}|  ${lines[j]}`
FrameLine(lineNum, text) ==
  [kind |-> "line", lineNum |-> lineNum, text |-> text, pad |-> 0, length |-> 0]

\* `   |  ` + ' '.repeat(pad) + '^'.repeat(length)
FrameMarker(pad, length) ==
  [kind |-> "marker", lineNum |-> 0, text |-> <<>>, pad |-> pad, length |-> length]

\* lines[j] of an index past the last line
Undefined == <<"undefined">>

RECURSIVE InnerLoop(_, _, _, _, _, _, _, _)
\* for (let j = i - range; j <= i + range || endNum > numCharacters; ++j)
\* fuel bounds the number of passes; diverged tells that it ran out
InnerLoop(lines, startNum, endNum, i, j, numCharacters, res, fuel) ==
  IF ~(j <= i + range \/ endNum > numCharacters)
  THEN [numCharacters |-> numCharacters, res |-> res, diverged |-> FALSE]
  ELSE IF fuel = 0 THEN [numCharacters |-> numCharacters, res |-> res, diverged |-> TRUE]
  ELSE IF j < 0 \/ j > Len(lines)
  THEN InnerLoop(lines, startNum, endNum, i, j + 1, numCharacters, res, fuel - 1)
  ELSE
    LET lineNum == j + 1
        text == IF j < Len(lines) THEN lines[j + 1] ELSE Undefined
        lineLength == IF j < Len(lines) THEN Len(lines[j + 1]) ELSE 0
        pad == Maximum(startNum - (numCharacters - lineLength) + 1, 0)
        marker ==
          IF j = i
          THEN <<FrameMarker(pad, Maximum(1, IF endNum > numCharacters THEN lineLength - pad
                                             ELSE endNum - startNum))>>
          ELSE IF j > i
          THEN <<FrameMarker(0, Maximum(Minimum(endNum - numCharacters, lineLength), 1))>>
          ELSE <<>>
    IN  InnerLoop(lines, startNum, endNum, i, j + 1, numCharacters + lineLength + 1,
                  res \o <<FrameLine(lineNum, text)>> \o marker, fuel - 1)

\* passes of the inner loop allowed before it counts as not terminating
Fuel == 4 * MaxSource + 16

RECURSIVE OuterLoop(_, _, _, _, _, _)
\* for (const line of lines) { numCharacters += line.length + 1; ...; ++i }
OuterLoop(lines, startNum, endNum, i, numCharacters, res) ==
  IF i >= Len(lines) THEN [res |-> res, diverged |-> FALSE]
  ELSE LET inner == InnerLoop(lines, startNum, endNum, i, i - range,
                              numCharacters + Len(lines[i + 1]) + 1, res, Fuel)
       IN  IF inner.diverged THEN [res |-> inner.res, diverged |-> TRUE]
           ELSE OuterLoop(lines, startNum, endNum, i + 1, inner.numCharacters, inner.res)

\* generateCodeFrame(source, start) with end undefined.  res is the array the
\* function fills; the function has no return statement, so the call gives
\* undefined whatever res holds
generateCodeFrame(source, start) ==
  LET startNum == positionToNumber(source, start)
      endNum == startNum
      loops == OuterLoop(split(source), startNum, endNum, 0, 0, <<>>)
  IN  [returned |-> "undefined", res |-> loops.res, diverged |-> loops.diverged]

GenerateCodeFrameCall(source, start) ==
  /\ frame = <<>>
  /\ frame' = <<[source |-> source, start |-> start, out |-> generateCodeFrame(source, start)]>>
  /\ UNCHANGED <<ctxCall, resolving, pos, merged, hot, sortVars, ctrVars, pkgVars, resVars,
                 ctxVars>>

\* the positions inside source: the offsets 0 .. length and the 1-based
\* { line, column } of every character
StartsOf(source) ==
  {Number(n) : n \in 0..Len(source)}
    \cup {Position(l, c) : l \in 1..Len(split(source)), c \in 0..MaxSource}

FrameInit == SortIdle /\ CtrIdle /\ PkgIdle /\ ResIdle /\ CtxIdle /\ UtilIdle

FrameNext ==
  \E source \in Sources : \E start \in StartsOf(source) :
    /\ start.type = "Position" => start.column <= Len(split(source)[start.line])
    /\ GenerateCodeFrameCall(source, start)

FrameSpec == FrameInit /\ [][FrameNext]_vars

(***************************************************************************)
(* mergeConfig and mergeConfigRecursively.  A config object is a function  *)
(* from its possible keys to values; a value is a record tagged with its   *)
(* type, "absent" for a key the object does not have.  fields holds the    *)
(* object of an "object" value as a one-element sequence.                  *)
(***************************************************************************)
ConfigKeys == {"assetsInclude", "build"}

NestedKeys == {"target"}

Value(type, s, items, fields) == [type |-> type, s |-> s, items |-> items, fields |-> fields]

Absent == Value("absent", "", <<>>, <<>>)

Null == Value("null", "", <<>>, <<>>)

Scalar(s) == Value("scalar", s, <<>>, <<>>)

Array(items) == Value("array", "", items, <<>>)

Object(fields) == Value("object", "", <<>>, <<fields>>)

\* the values a key has in an object written by `by`
Leaves(by) == {Absent, Null, Scalar(by), Array(<<by>>)}

Configs(by) ==
  [ConfigKeys -> Leaves(by) \cup {Object(o) : o \in [NestedKeys -> Leaves(by)]}]

\* value == null
IsNullish(value) == value.type \in {"absent", "null"}

\* toArray(target); an object in an array is seen as the item "object"
toArray(target) ==
  CASE target.type = "array" -> target.items
    [] target.type = "scalar" -> <<target.s>>
    [] OTHER -> <<"object">>

RECURSIVE mergeConfigRecursively(_, _, _)
\* rootPath is the sequence of the keys of the path, <<>> for ''
mergeConfigRecursively(defaults, overrides, rootPath) ==
  [key \in DOMAIN defaults |->
    LET value == overrides[key]
        \* const merged = { ...defaults }; existing = merged[key]
        existing == defaults[key]
    IN  IF IsNullish(value) THEN existing
        \* if (existing == null) { merged[key] == value; return }: a comparison
        \* whose result is dropped, merged[key] stays as it is
        ELSE IF IsNullish(existing) THEN existing
        ELSE IF key = "assetsInclude" /\ rootPath = <<>>
        THEN Array(toArray(existing) \o toArray(value))
        ELSE IF existing.type = "array" \/ value.type = "array"
        THEN Array(toArray(existing) \o toArray(value))
        ELSE IF existing.type = "object" /\ value.type = "object"
        THEN Object(mergeConfigRecursively(existing.fields[1], value.fields[1],
                                           Append(rootPath, key)))
        ELSE value]

\* mergeConfig(defaults, overrides, isRoot): neither argument is a function
mergeConfig(defaults, overrides, isRoot) ==
  mergeConfigRecursively(defaults, overrides, IF isRoot THEN <<>> ELSE <<".">>)

\* currentConfig = mergeConfig(currentConfig, res) of runConfigHook, and
\* mergeConfig called with isRoot false
MergeConfigCall(defaults, overrides, isRoot) ==
  /\ merged = <<>>
  /\ merged' = <<[defaults |-> defaults, overrides |-> overrides, isRoot |-> isRoot,
                  out |-> mergeConfig(defaults, overrides, isRoot)]>>
  /\ UNCHANGED <<ctxCall, resolving, pos, frame, hot, sortVars, ctrVars, pkgVars, resVars,
                 ctxVars>>

MergeInit == SortIdle /\ CtrIdle /\ PkgIdle /\ ResIdle /\ CtxIdle /\ UtilIdle

MergeNext ==
  \E defaults \in Configs("d"), overrides \in Configs("o"), isRoot \in BOOLEAN :
    MergeConfigCall(defaults, overrides, isRoot)

MergeSpec == MergeInit /\ [][MergeNext]_vars

(***************************************************************************)
(* client.ts  createHotContext, hot.on and notifyListeners.  The listener  *)
(* arrays are objects that two maps can hold at once, so they live in a    *)
(* heap and the maps hold references (0: the map has no entry).  `hot` is  *)
(* a one-element sequence holding heap, customListeners, ctxToListenersMap *)
(* (owner -> [has, map]), the registrations made through the current hot   *)
(* contexts, and what the last notification invoked.                       *)
(***************************************************************************)
\* number of hot.on calls
MaxOn == 3

\* number of createHotContext calls
MaxContexts == 3

Owners == {"/a.js", "/b.js"}

Events == {"vite:beforeUpdate", "my:event"}

NoEntries == [event \in Events |-> 0]

NoNotification == [called |-> FALSE, event |-> "", invoked |-> <<>>, registered |-> {}]

\* newListeners.get(event) ?? []: the array and the heap that holds it
GetOrEmpty(heap, map, event) ==
  IF map[event] # 0 THEN [ref |-> map[event], heap |-> heap]
  ELSE [ref |-> Len(heap) + 1, heap |-> Append(heap, <<>>)]

\* array.push(cb)
Push(heap, ref, cb) == [heap EXCEPT ![ref] = Append(@, cb)]

\* hot.on(event, cb) of the context of owner, cb a function not registered
\* before
On(owner, event) ==
  /\ hot[1].ctxToListenersMap[owner].has
  /\ hot[1].ons < MaxOn
  /\ LET cb == hot[1].ons + 1
         newListeners == hot[1].ctxToListenersMap[owner].map
         customEventListeners == GetOrEmpty(hot[1].heap, newListeners, event)
         pushed == Push(customEventListeners.heap, customEventListeners.ref, cb)
         newEventListeners == GetOrEmpty(pushed, newListeners, event)
     IN  hot' = <<[hot[1] EXCEPT
                     !.heap = Push(newEventListeners.heap, newEventListeners.ref, cb),
                     !.customListeners[event] = customEventListeners.ref,
                     !.ctxToListenersMap[owner].map[event] = newEventListeners.ref,
                     !.registered = @ \cup {[owner |-> owner, event |-> event, cb |-> cb]},
                     !.ons = cb]>>
  /\ UNCHANGED <<ctxCall, resolving, pos, frame, merged, sortVars, ctrVars, pkgVars, resVars,
                 ctxVars>>

RECURSIVE RemoveStale(_, _, _, _)
\* staleListeners.forEach((staleFunctions, event) => ...) over the events left
RemoveStale(heap, custom, stale, events) ==
  IF events = {} THEN [heap |-> heap, customListeners |-> custom]
  ELSE LET event == CHOOSE e \in events : TRUE
           listeners == custom[event]
       IN  IF stale[event] # 0 /\ listeners # 0
           THEN RemoveStale(
                  Append(heap, FilterSeq(heap[listeners],
                                         Range(heap[listeners]) \ Range(heap[stale[event]]))),
                  [custom EXCEPT ![event] = Len(heap) + 1], stale, events \ {event})
           ELSE RemoveStale(heap, custom, stale, events \ {event})

\* createHotContext(ownerPath): the module of owner is (re-)executed
createHotContext(owner) ==
  /\ hot[1].contexts < MaxContexts
  /\ LET staleListeners == hot[1].ctxToListenersMap[owner]
         cleaned == IF staleListeners.has
                    THEN RemoveStale(hot[1].heap, hot[1].customListeners, staleListeners.map,
                                     Events)
                    ELSE [heap |-> hot[1].heap, customListeners |-> hot[1].customListeners]
     IN  hot' = <<[hot[1] EXCEPT
                     !.heap = cleaned.heap,
                     !.customListeners = cleaned.customListeners,
                     !.ctxToListenersMap[owner] = [has |-> TRUE, map |-> NoEntries],
                     !.registered = {r \in @ : r.owner # owner},
                     !.contexts = @ + 1]>>
  /\ UNCHANGED <<ctxCall, resolving, pos, frame, merged, sortVars, ctrVars, pkgVars, resVars,
                 ctxVars>>

\* notifyListeners(event, data): customListeners.get(event)?.forEach(...)
notifyListeners(event) ==
  /\ hot' = <<[hot[1] EXCEPT !.notified =
                 [called |-> TRUE, event |-> event,
                  invoked |-> IF hot[1].customListeners[event] = 0 THEN <<>>
                              ELSE hot[1].heap[hot[1].customListeners[event]],
                  registered |-> {r.cb : r \in {q \in hot[1].registered : q.event = event}}]]>>
  /\ UNCHANGED <<ctxCall, resolving, pos, frame, merged, sortVars, ctrVars, pkgVars, resVars,
                 ctxVars>>

HotInit ==
  /\ SortIdle
  /\ CtrIdle
  /\ PkgIdle
  /\ ResIdle
  /\ CtxIdle
  /\ ctxCall = <<>>
  /\ resolving = <<>>
  /\ pos = <<>>
  /\ frame = <<>>
  /\ merged = <<>>
  /\ hot = <<[heap |-> <<>>, customListeners |-> NoEntries,
              ctxToListenersMap |-> [owner \in Owners |-> [has |-> FALSE, map |-> NoEntries]],
              registered |-> {}, notified |-> NoNotification, ons |-> 0, contexts |-> 0]>>

HotNext ==
  \/ \E owner \in Owners : createHotContext(owner)
  \/ \E owner \in Owners, event \in Events : On(owner, event)
  \/ \E event \in Events : notifyListeners(event)

HotSpec == HotInit /\ [][HotNext]_vars

(***************************************************************************)
(* Claims about the hook sorter                                            *)
(***************************************************************************)
\* the plugins of list whose entry kind is in kinds, in their original order
OfKinds(list, kinds) == FilterSeq(list, {p \in Range(list) : p.hook \in kinds})

\* number of occurrences of x in s
Count(s, x) == Cardinality({i \in 1..Len(s) : s[i] = x})

\* C6: the sorter returns the plugins declaring order 'pre', then those with no
\* declared order (a bare handler, or an object entry without order), then those
\* declaring 'post', each group in the original relative order.
C6_StablePartition ==
  sortOut.called =>
    sortOut.result = OfKinds(sortIn, {"pre"}) \o OfKinds(sortIn, {"fn", "obj"})
                       \o OfKinds(sortIn, {"post"})

\* C7: the sorted list holds every plugin that defines the hook exactly once
\* (bare handler, or object entry with order 'pre', 'post' or undefined) and no
\* plugin that does not define it.
C7_EveryDefinerOnce ==
  sortOut.called =>
    \A p \in Range(sortIn) :
      Count(sortOut.result, p) = IF p.hook # "absent" THEN 1 ELSE 0

(***************************************************************************)
(* Claims about close() and the calls around it (Spec)                     *)
(***************************************************************************)
\* the call ended with the pipeline-closed error
ClosedOut(call) ==
  call.pc = "done" /\ call.out.kind = "reject" /\ call.out.err.code = "ERR_CLOSED_SERVER"

\* some buildEnd or closeBundle handler has been invoked
TeardownStarted == \E h \in TeardownHooks, p \in PluginNames : hooks[h][p].calls > 0

\* C1: every non-SSR resolveId / load / transform call made after close() was
\* invoked rejects with the pipeline-closed error, for every plugin list.
C1_ClosedRejects ==
  \A c \in CallIds :
    (calls[c].pc # "idle" /\ calls[c].afterClose /\ ~calls[c].ssr) => ClosedOut(calls[c])

\* C2 as stated: a non-SSR resolveId call suspended in a handler when close() was
\* invoked still completes, never with the pipeline-closed error.
C2_InFlightCompletes ==
  \A c \in CallIds :
    (calls[c].hook = "resolveId" /\ ~calls[c].ssr /\ calls[c].atClose = "pending")
      => ~ClosedOut(calls[c])

\* C2 as amended: such a call invokes no further handler; it ends with what the
\* handler it was suspended in hands back when that is a truthy result or an
\* error, with null when that handler was the last sorted plugin, and with the
\* pipeline-closed error when the handler hands back a falsy result and a later
\* plugin remains.
C2_InFlightAmended ==
  \A c \in CallIds :
    (calls[c].hook = "resolveId" /\ ~calls[c].ssr /\ calls[c].atClose = "pending"
       /\ calls[c].pc = "done")
      => LET call == calls[c]
             k == call.idxAtClose
             res == call.invoked[k].result
             p == call.invoked[k].plugin
             last == k = Len(getSortedPluginsBy(plugins))
         IN /\ Len(call.invoked) = k
            /\ ClosedOut(call) <=> (res = "null" /\ ~last)
            /\ res = "str" => (call.out.kind = "return" /\ call.out.from = p)
            /\ res = "throw" => (call.out.kind = "reject" /\ call.out.err.by = p)
            /\ (res = "null" /\ last) => (call.out.kind = "return" /\ call.out.from = 0)

\* C2 witness: a call that was suspended in a handler when close() was invoked
\* has returned that handler's result
C2_Witness ==
  \E c \in CallIds :
    /\ calls[c].hook = "resolveId" /\ ~calls[c].ssr /\ calls[c].atClose = "pending"
    /\ calls[c].pc = "done" /\ calls[c].out.kind = "return" /\ calls[c].out.from # 0

\* C3 as stated: no buildEnd / closeBundle handler is invoked until every call
\* that was in flight when close() was invoked has finished.
C3_TeardownAfterCalls ==
  TeardownStarted => \A c \in CallIds : calls[c].atClose # "no" => calls[c].pc = "done"

\* C3 as amended: no buildEnd / closeBundle handler is invoked until every
\* handler promise that was pending when close() was invoked has settled.
C3_TeardownAfterPromises ==
  TeardownStarted =>
    \A c \in CallIds :
      calls[c].atClose = "pending"
        => ~(calls[c].pc = "pending" /\ calls[c].idx = calls[c].idxAtClose)

\* C3 witness: teardown handlers have run after close() waited for a pending
\* handler promise, and the call that owned it is still going on
C3_Witness ==
  /\ TeardownStarted
  /\ \E c \in CallIds : calls[c].atClose = "pending" /\ calls[c].pc # "done"

(***************************************************************************)
(* Claims about one call (CallSpec)                                        *)
(***************************************************************************)
\* the names of the sorted plugins of the container
SortedNames == [i \in 1..Len(getSortedPluginsBy(plugins)) |-> getSortedPluginsBy(plugins)[i].name]

\* the handlers of the call were invoked in sorted order, from the first on
InSortedOrder(call) ==
  /\ Len(call.invoked) <= Len(SortedNames)
  /\ \A k \in 1..Len(call.invoked) : call.invoked[k].plugin = SortedNames[k]

\* C4: within one resolveId or load call the handlers run one at a time in sorted
\* order; the call returns the first result that is neither null nor undefined
\* and invokes no handler of a later plugin.
C4_FirstNonNull ==
  \A c \in CallIds :
    calls[c].hook \in {"resolveId", "load"} =>
      LET call == calls[c]
          n == Len(call.invoked)
      IN /\ InSortedOrder(call)
         /\ \A k \in 1..(n - 1) : call.invoked[k].result = "null"
         /\ (call.pc = "done" /\ call.out.kind = "return") =>
              IF n > 0 /\ call.invoked[n].result # "null"
              THEN call.out.from = call.invoked[n].plugin
              ELSE call.out.from = 0 /\ n = Len(SortedNames)

\* the code a handler hands back with a result of the given kind
CodeGiven(kind, p) == IF kind = "empty" THEN EmptyCode ELSE GenCode(p)

RECURSIVE CodeAfter(_, _, _)
\* the code produced by the nearest of the first k handlers whose result kind
\* is among codeKinds, the code passed to transform() if there is none
CodeAfter(invoked, k, codeKinds) ==
  IF k = 0 THEN SrcCode
  ELSE IF invoked[k].result \in codeKinds
  THEN CodeGiven(invoked[k].result, invoked[k].plugin)
  ELSE CodeAfter(invoked, k - 1, codeKinds)

CodeChain(codeKinds) ==
  \A c \in CallIds :
    calls[c].hook = "transform" =>
      LET call == calls[c]
          n == Len(call.invoked)
      IN /\ InSortedOrder(call)
         /\ \A k \in 1..n : call.invoked[k].input = CodeAfter(call.invoked, k - 1, codeKinds)
         /\ (call.pc = "done" /\ call.out.kind = "return") =>
              (n = Len(SortedNames) /\ call.out.code = CodeAfter(call.invoked, n, codeKinds))

\* C5 as stated: in a transform call each handler receives the code produced by
\* the nearest preceding handler that returned code (a string, or an object with
\* a code), and the call returns the code of the last handler that returned code.
C5_CodeChain == CodeChain({"empty", "str", "obj"})

\* C5 as amended: the same, where a handler that returns the empty string counts
\* as having returned nothing.
C5_CodeChainAmended == CodeChain({"str", "obj"})

\* C5 witness: a transform call has returned after its second handler received
\* the code written by the first
C5_Witness ==
  \E c \in CallIds :
    /\ calls[c].hook = "transform" /\ calls[c].pc = "done" /\ calls[c].out.kind = "return"
    /\ Len(calls[c].invoked) = 2
    /\ calls[c].invoked[2].input = GenCode(calls[c].invoked[1].plugin)

\* C8: if a resolveId or load handler throws, the call rejects with that error
\* carrying the name of the plugin whose handler was active, and no later
\* handler is invoked.
C8_ErrorsEnriched ==
  \A c \in CallIds :
    calls[c].hook \in {"resolveId", "load"} =>
      \A k \in 1..Len(calls[c].invoked) :
        calls[c].invoked[k].result \in {"throw", "thisError"} =>
          /\ k = Len(calls[c].invoked)
          /\ calls[c].pc = "done"
          /\ calls[c].out.kind = "reject"
          /\ calls[c].out.err.by = calls[c].invoked[k].plugin
          /\ calls[c].out.err.plugin = calls[c].invoked[k].plugin

\* C9: if any plugin of a transform call returns a nullified source map, the map
\* the call returns is null, whatever the other plugins contributed and whether
\* or not the combined map was requested part-way.
C9_NullifiedMapWins ==
  \A c \in CallIds :
    (/\ calls[c].hook = "transform" /\ calls[c].pc = "done" /\ calls[c].out.kind = "return"
     /\ \E k \in 1..Len(calls[c].invoked) :
          calls[c].invoked[k].result = "obj" /\ calls[c].invoked[k].map = "nullified")
      => calls[c].out.map = NoMap


(***************************************************************************)
(* Claims about the package manifest lookup (checked under PkgSpec)        *)
(***************************************************************************)
\* the directories from d up to the root
RECURSIVE PathToRoot(_)
PathToRoot(d) == IF dirname(d) = d THEN {d} ELSE {d} \cup PathToRoot(dirname(d))

\* the nearest directory at or above d whose package.json parses (<<>> if none)
RECURSIVE NearestManifest(_)
NearestManifest(d) ==
  IF fs[d] = "ok" THEN <<[directory |-> d]>>
  ELSE IF dirname(d) = d THEN <<>>
  ELSE NearestManifest(dirname(d))

\* C10: findNearestPackageData(base) returns the manifest of the nearest
\* directory, walking upward from base to the root, that contains a readable
\* package.json, and null only if no directory on that path contains one
\* (stated over paths on which every package.json present parses).
C10_NearestManifest ==
  (fnpd.called /\ \A d \in PathToRoot(fnpd.baseDirectory) : fs[d] # "bad")
    => fnpd.result = NearestManifest(fnpd.baseDirectory)


\* C11: over an unchanging filesystem, a findNearestPackageData call returns
\* the same manifest whether it is served from a cache warmed by any sequence
\* of earlier lookups or run with no cache at all.
C11_CacheTransparent ==
  fnpd.called =>
    fnpd.result = Walk(<<>>, FALSE, fnpd.baseDirectory, fnpd.baseDirectory).result

\* the kind of the first package.json met walking upward from d ("none" if
\* no directory on the path has one)
RECURSIVE FirstFound(_)
FirstFound(d) ==
  IF fs[d] # "none" THEN fs[d]
  ELSE IF dirname(d) = d THEN "none"
  ELSE FirstFound(dirname(d))

\* C16: if a package.json found on the upward walk cannot be parsed,
\* findNearestPackageData surfaces a hard error to the caller; it neither
\* returns null nor continues to an ancestor's manifest.
C16_ParseErrorSurfaces ==
  (fnpd.called /\ FirstFound(fnpd.baseDirectory) = "bad") => fnpd.threw

\* the directories from base up to directory d above it, both included
Span(base, d) == {x \in PathToRoot(base) : d \in PathToRoot(x)}

\* C22: a findNearestPackageData call that returns null leaves the cache as it
\* was, and a call from base B that returns the manifest of directory D keeps
\* every entry the cache had and adds entries only for directories from B up
\* to D, each mapping to that manifest.
C22_OnlyHitsBackfilled ==
  [][ IF fnpd'.result = <<>>
      THEN packageCache' = packageCache
      ELSE /\ DOMAIN packageCache \subseteq DOMAIN packageCache'
           /\ \A d \in DOMAIN packageCache' :
                \/ d \in DOMAIN packageCache /\ packageCache'[d] = packageCache[d]
                \/ /\ d \in Span(fnpd'.baseDirectory, fnpd'.result[1].directory)
                   /\ packageCache'[d] = fnpd'.result[1] ]_vars

\* a cached call has returned the manifest of a directory above its base, and
\* the cache maps every directory from the base up to it to that manifest
C22_Witness ==
  /\ fnpd.called
  /\ fnpd.cached
  /\ fnpd.result # <<>>
  /\ fnpd.result[1].directory # fnpd.baseDirectory
  /\ dirname(fnpd.baseDirectory) # fnpd.result[1].directory
  /\ \A d \in Span(fnpd.baseDirectory, fnpd.result[1].directory) :
       d \in DOMAIN packageCache /\ packageCache[d] = fnpd.result[1]
  /\ DOMAIN packageCache # Dirs


(***************************************************************************)
(* Claims about the bare-specifier resolver (checked under ResolveSpec)    *)
(***************************************************************************)
\* the package is installed in the node_modules of basedir or of an ancestor
Located(basedir) == \E d \in PathToRoot(basedir) : installed[d] = "pkg"

\* C12: for a package whose manifest has an exports map, resolving a deep
\* subpath that is neither listed in the map nor matched by a pattern yields
\* undefined; it is never resolved to a file under the package directory.
C12_UnlistedIsUndefined ==
  (/\ tnr.called
   /\ deepMatch(tnr.id)
   /\ Located(tnr.basedir)
   /\ manifest.exports = "map"
   /\ ~manifest.listed)
    => tnr.kind = "undefined"


\* the manifest of the matched package cannot produce what the specifier
\* asks for: no entry file, or a deep subpath its exports field does not expose
MetadataFails(id) ==
  IF deepMatch(id) THEN manifest.exports # "none" /\ ~(manifest.exports = "map" /\ manifest.listed)
  ELSE ~manifest.entry

\* C13: resolving a bare specifier never throws for 'not found': when the
\* package cannot be located, or a deep subpath of a package without an
\* exports map matches no file, the result is undefined (or the id of an
\* optional peer dependency); the resolver throws only when a package was
\* matched but its metadata cannot produce an entry.
C13_NotFoundNeverThrows ==
  tnr.called =>
    /\ ~Located(tnr.basedir) => tnr.kind # "throw"
    /\ (Located(tnr.basedir) /\ deepMatch(tnr.id) /\ manifest.exports = "none" /\ ~manifest.file)
         => tnr.kind = "undefined"
    /\ tnr.kind = "throw" => (Located(tnr.basedir) /\ MetadataFails(tnr.id))


\* the nearest directory at or above d whose node_modules holds the package
RECURSIVE NearestInstall(_)
NearestInstall(d) ==
  IF installed[d] = "pkg" \/ dirname(d) = d THEN d ELSE NearestInstall(dirname(d))

\* the deep subpath names an existing file that the manifest exposes
DeepResolvable(basedir) ==
  /\ Located(basedir)
  /\ manifest.exports = "none" \/ (manifest.exports = "map" /\ manifest.listed)
  /\ manifest.file

\* C14: resolving the same deep subpath a second time for the same manifest
\* and the same target returns the identical path as the first successful
\* resolution and performs no filesystem access.
C14_SecondFromCache ==
  [][(/\ tnr.called
      /\ deepMatch(tnr.id)
      /\ tnr'.id = tnr.id
      /\ tnr'.targetWeb = tnr.targetWeb
      /\ DeepResolvable(tnr.basedir)
      /\ DeepResolvable(tnr'.basedir)
      /\ NearestInstall(tnr'.basedir) = NearestInstall(tnr.basedir))
       => (/\ tnr'.kind = "id"
           /\ tnr'.probes = 0
           /\ tnr.kind = "id" => tnr'.result = tnr.result)]_vars


\* every key of map before is a key of map after, with the same value
Additive(before, after) ==
  \A k \in DOMAIN before : k \in DOMAIN after /\ after[k] = before[k]

\* C15: the manifest cache (its fnpd and its rpd keys) and every manifest's
\* web and non-web resolution caches are purely additive: once a key is
\* present its value never changes and the key is never removed.
C15_CachesAdditive ==
  [][/\ Additive(packageCache, packageCache')
     /\ Additive(rpdCache, rpdCache')
     /\ \A p \in DOMAIN resolvedImports :
          /\ p \in DOMAIN resolvedImports'
          /\ Additive(resolvedImports[p].web, resolvedImports'[p].web)
          /\ Additive(resolvedImports[p].node, resolvedImports'[p].node)]_vars

\* the manifest cache holds keys written by different calls, for different
\* manifests, each loaded with its resolution caches
C15_Witness ==
  /\ tnr.called
  /\ \E j, k \in DOMAIN rpdCache : rpdCache[j] # rpdCache[k]
  /\ Cardinality(DOMAIN resolvedImports) > 1

(***************************************************************************)
(* hookParallel: the order of the handlers of one run                      *)
(***************************************************************************)
HookInvoked(h, p) == hooks[h][p].status # "none"

HookSettled(h, p) == hooks[h][p].status \in {"fulfilled", "rejected"}

\* C17: in a run of hookParallel a sequential handler has been invoked only
\* if every handler before it has settled, a handler after a sequential one
\* has been invoked only if that sequential handler has settled, and a
\* non-sequential handler that follows a non-sequential one is invoked in the
\* same step, while the earlier one may still be pending.
C17_SequentialOrdering ==
  \A h \in TeardownHooks :
    LET sorted == getSortedPlugins(h)
    IN \A i, j \in 1..Len(sorted) :
         i < j =>
           /\ sorted[j].sequential /\ HookInvoked(h, sorted[j].name)
                => HookSettled(h, sorted[i].name)
           /\ sorted[i].sequential /\ HookInvoked(h, sorted[j].name)
                => HookSettled(h, sorted[i].name)
           /\ /\ j = i + 1
              /\ ~sorted[i].sequential
              /\ ~sorted[j].sequential
              /\ hooks[h][sorted[i].name].status \in {"pending", "fulfilled"}
              => HookInvoked(h, sorted[j].name)

\* closeBundle is at the await of a sequential handler that was invoked after
\* the non-sequential handler before it fulfilled
C17_Witness ==
  LET sorted == getSortedPlugins("closeBundle")
  IN /\ closing.pc = "closeBundle"
     /\ closing.await = "seq"
     /\ Len(sorted) = 2
     /\ ~sorted[1].sequential
     /\ sorted[2].sequential
     /\ hooks["closeBundle"][sorted[1].name].status = "fulfilled"
     /\ hooks["closeBundle"][sorted[2].name].status = "pending"

\* the run of hookParallel(h) made by close() has returned: its promise
\* fulfilled (close() went on) or rejected (close() failed)
RunSettled(h) ==
  \/ closing.pc \in {"done", "failed"}
  \/ h = "buildEnd" /\ closing.pc = "closeBundle"

\* C18: once the promise of a run of hookParallel has settled, fulfilled or
\* rejected, no handler that run invoked is still pending.
C18_SettlesAfterHandlers ==
  \A h \in TeardownHooks :
    RunSettled(h) => \A p \in PluginNames : hooks[h][p].status # "pending"

(***************************************************************************)
(* container.close() called more than once                                 *)
(***************************************************************************)
\* C20: however many times close() is called, during the first close() or
\* after it, every buildEnd handler and every closeBundle handler has been
\* invoked at most once.
C20_TeardownOnce ==
  \A h \in TeardownHooks, p \in PluginNames : hooks[h][p].calls <= 1

\* close() was called again while the first close() awaited a buildEnd handler
\* and once more after it had returned, and both hooks ran
C20_Witness ==
  /\ closing.pc = "done"
  /\ \E i, j \in 1..Len(closing.again) :
       closing.again[i] = "buildEnd" /\ closing.again[j] = "done"
  /\ \E p \in PluginNames :
       hooks["buildEnd"][p].calls = 1 /\ hooks["closeBundle"][p].calls = 1

(***************************************************************************)
(* Concurrent transform calls                                              *)
(***************************************************************************)
\* C19: a transform call that rejects because one of its handlers threw
\* rejects with that error carrying the name of the plugin that was active in
\* this call, the module id of this call and the code this call handed to
\* that handler, whatever the other calls in flight are doing.
C19_ErrorOfOwnCall ==
  \A c \in DOMAIN calls :
    /\ calls[c].hook = "transform"
    /\ calls[c].out.kind = "reject"
    /\ calls[c].out.err.code = "PLUGIN_ERROR"
    => LET last == calls[c].invoked[Len(calls[c].invoked)]
       IN /\ calls[c].out.err.by = last.plugin
          /\ calls[c].out.err.plugin = last.plugin
          /\ calls[c].out.err.id = calls[c].id
          /\ calls[c].out.err.pluginCode = last.input

\* a call has rejected with a handler's error while another call is suspended
\* in the handler of another plugin, on other code
C19_Witness ==
  \E c, d \in DOMAIN calls :
    /\ c # d
    /\ calls[c].hook = "transform"
    /\ calls[c].out.kind = "reject"
    /\ calls[c].out.err.code = "PLUGIN_ERROR"
    /\ calls[d].hook = "transform"
    /\ calls[d].pc = "pending"
    /\ calls[d].ctx._activePlugin # calls[c].out.err.plugin
    /\ calls[d].ctx._activeCode # calls[c].out.err.pluginCode

(***************************************************************************)
(* container.close() with rejecting hook promises in flight                *)
(***************************************************************************)
\* the handler promise of call c that was pending when close() was called
\* has rejected
RejectedAtClose(c) ==
  /\ calls[c].atClose = "pending"
  /\ \/ /\ calls[c].pc = "ready"
        /\ calls[c].idx = calls[c].idxAtClose
        /\ calls[c].last.kind = "throw"
     \/ calls[c].invoked[calls[c].idxAtClose].result = "throw"

\* the handler promise of call c that was pending when close() was called is
\* still pending
PendingSinceClose(c) ==
  /\ calls[c].atClose = "pending"
  /\ calls[c].pc = "pending"
  /\ calls[c].idx = calls[c].idxAtClose

\* C21: when a hook promise that was in flight at close() has rejected, close()
\* fails only if a teardown handler failed, it has started the teardown hooks
\* only once every promise in flight at close() has settled, and once they
\* have settled it is able to go on to the teardown hooks.
C21_RejectionDoesNotFailClose ==
  (\E c \in DOMAIN calls : RejectedAtClose(c)) =>
    /\ closing.pc = "failed" =>
         \E h \in TeardownHooks, p \in PluginNames : hooks[h][p].status = "rejected"
    /\ closing.pc \notin {"idle", "drain"} =>
         \A d \in DOMAIN calls : ~PendingSinceClose(d)
    /\ closing.pc = "drain" /\ closing.wait = {} /\ closing.before = {} =>
         ENABLED (\E beh \in Behaviours : Drained(beh))

\* close() has returned after both teardown hooks ran, with two promises in
\* flight when it was called, one of which rejected
C21_Witness ==
  /\ closing.pc = "done"
  /\ \E c, d \in DOMAIN calls :
       c # d /\ RejectedAtClose(c) /\ calls[d].atClose = "pending"
  /\ \E p \in PluginNames :
       hooks["buildEnd"][p].calls = 1 /\ hooks["closeBundle"][p].calls = 1

(***************************************************************************)
(* Claims about resolvePackageData over symbolic links (LinkSpec)          *)
(***************************************************************************)
\* C23: the PackageData objects that lookups from different directories have
\* returned for entries leading to the same physical package are one and the
\* same object.
C23_SharedInstance ==
  \A a, b \in DOMAIN rpdCache :
    rpdCache[a].directory = rpdCache[b].directory => rpdCache[a] = rpdCache[b]

(***************************************************************************)
(* Claims about findNearestMainPackageData (MainSpec)                      *)
(***************************************************************************)
\* the nearest directory at or above d whose package.json has a name
RECURSIVE NearestNamed(_)
NearestNamed(d) ==
  IF fs[d] \in {"ok", "peer"} THEN <<[directory |-> d]>>
  ELSE IF dirname(d) = d THEN <<>>
  ELSE NearestNamed(dirname(d))

\* C24: findNearestMainPackageData(base) returns the manifest of the nearest
\* directory at or above base whose package.json has a name, passing over
\* the nameless ones, and null if there is none; it does not raise.
C24_NearestNamed ==
  fnpd.called => ~fnpd.threw /\ fnpd.result = NearestNamed(fnpd.baseDirectory)

(***************************************************************************)
(* Claims about optional peer dependencies (ResolveSpec)                   *)
(***************************************************************************)
\* C25: when pkg is installed nowhere at or above the importer's directory
\* and the nearest named manifest at or above that directory declares pkg
\* as an optional peer dependency, tryNodeResolve('pkg') returns the id of
\* the optional peer dependency of that manifest, wherever the importer is.
C25_OptionalPeerSentinel ==
  (/\ tnr.called
   /\ tnr.id = "pkg"
   /\ ~Located(tnr.basedir)
   /\ NearestNamed(tnr.basedir) # <<>>
   /\ fs[NearestNamed(tnr.basedir)[1].directory] = "peer")
    => /\ tnr.kind = "id"
       /\ tnr.result = <<OptionalPeerDep("pkg", NearestNamed(tnr.basedir)[1].directory)>>

(***************************************************************************)
(* Claims about filesystem probing (ProbeSpec)                             *)
(***************************************************************************)
\* the paths a call is to try, in order of priority
Priority(in) ==
  (IF in.isFromTsImporter /\ in.fileExt \in {"js", "jsLike"}
   THEN <<Probe("ts", 0)>> \o (IF in.fileExt = "js" THEN <<Probe("tsx", 0)>> ELSE <<>>)
   ELSE <<>>)
  \o [i \in 1..in.extensions |-> Probe("file", i)]
  \o (IF in.tryPrefix
      THEN <<Probe("prefixed", 0)>> \o [i \in 1..in.extensions |-> Probe("prefixed", i)]
      ELSE <<>>)
  \o (IF in.tryIndex /\ in.stat = "dir"
      THEN (IF in.skipPackageJson THEN <<>> ELSE <<Probe("package.json", 0)>>)
           \o [i \in 1..in.extensions |-> Probe("index", i)]
           \o (IF in.tryPrefix THEN [i \in 1..in.extensions |-> Probe("prefixedIndex", i)]
               ELSE <<>>)
      ELSE <<>>)

\* the first path of a priority list that exists
RECURSIVE FirstExisting(_, _)
FirstExisting(in, list) ==
  IF list = <<>> THEN <<>>
  ELSE IF Head(list) \in in.exists THEN <<Head(list)>>
  ELSE FirstExisting(in, Tail(list))

\* C27: tryCleanFsResolve returns the candidate itself if it is a file, and
\* otherwise the first existing path in priority order (for a nested
\* package.json, the entry of that manifest); it returns undefined if none
\* exists and does not raise.
C27_FirstExisting ==
  tcfr.called =>
    LET in == tcfr.in
        first == FirstExisting(in, Priority(in))
    IN  /\ tcfr.out.kind # "throw"
        /\ in.stat = "file" => tcfr.out.result = <<Probe("file", 0)>>
        /\ in.stat # "file" /\ first # <<Probe("package.json", 0)>>
             => tcfr.out.result = first
        /\ in.stat # "file" /\ first = <<Probe("package.json", 0)>>
             => tcfr.out.kind = "id"

\* the file a located package's manifest names for id when its browser
\* field is left out, and whether that file exists
NodeFile(id) ==
  IF deepMatch(id) THEN FileOf(unresolvedId(id))
  ELSE IF manifest.main = "directory" THEN "lib/index.js" ELSE "index.js"

NodeFileExists(id) ==
  IF deepMatch(id) THEN FileExists(unresolvedId(id)) ELSE manifest.entry

\* C26: the browser-field remap is applied only for web targets: for a
\* non-web target, resolving the entry or a deep subpath of a package without
\* an exports field yields the file the manifests name when their browser
\* fields are left out, also when the entry is a directory with a manifest of
\* its own.
C26_BrowserOnlyForWeb ==
  (/\ tnr.called
   /\ ~tnr.targetWeb
   /\ Located(tnr.basedir)
   /\ manifest.exports = "none"
   /\ NodeFileExists(tnr.id))
  => (tnr.kind = "id" /\ tnr.result[1].file = NodeFile(tnr.id))

\* a package with no exports map and no entry fields whose only file is
\* index.js
IndexOnly ==
  /\ manifest.exports = "none"
  /\ manifest.main = "none"
  /\ ~manifest.browser
  /\ manifest.entry
  /\ ~manifest.file

\* C28: for a package with no exports map and no entry fields whose only file
\* is index.js, resolving pkg and resolving pkg/index yield the same path,
\* that of index.js in the package directory.
C28_EntryAndIndexAgree ==
  (/\ tnr.called
   /\ tnr.id \in {"pkg", "pkg/index"}
   /\ Located(tnr.basedir)
   /\ IndexOnly)
  => (/\ tnr.kind = "id"
      /\ tnr.result[1].file = "index.js"
      /\ tnr.result[1].package.directory = realpath[NearestInstall(tnr.basedir)])

(***************************************************************************)
(* Claims about the ModuleInfo objects (InfoSpec)                          *)
(***************************************************************************)

\* C29 as stated: reading from a ModuleInfo any property other than id and
\* meta raises the unsupported-property error.
C29_UnsupportedThrows ==
  (access.called /\ access.key \notin {"id", "meta"}) => access.kind = "throw"

\* C29: reading from a ModuleInfo a property other than id and meta raises
\* the unsupported-property error, except that then reads as undefined and
\* that a property every object inherits from Object.prototype reads as the
\* inherited value.
C29_UnsupportedThrowsButThen ==
  access.called =>
    /\ access.key \notin {"id", "meta", "then", "toString"} => access.kind = "throw"
    /\ access.key = "then" => access.kind = "undefined"
    /\ access.key = "toString" => access.kind = "inherited"

\* a property of Rollup's ModuleInfo that the container does not keep was
\* read and raised the error
C29_Witness == access.called /\ access.key = "code" /\ access.kind = "throw"

(***************************************************************************)
(* Claims about the unsupported context methods (LogSpec)                  *)
(***************************************************************************)

\* how many elements of the sequence q are msg
RECURSIVE CountOf(_, _)
CountOf(q, msg) ==
  IF q = <<>> THEN 0
  ELSE (IF Head(q) = msg THEN 1 ELSE 0) + CountOf(Tail(q), msg)

\* the messages of the console lines
Written == [i \in 1..Len(console) |-> console[i].msg]

\* C30: the emitFile calls of a plugin, however many, leave exactly one
\* warning on the console of a logger that writes warnings.
C30_WarnOnce ==
  \A plugin \in 1..MaxPlugins :
    (/\ logger.threshold >= LogLevels["warn"]
     /\ CountOf(warnCalls, IncompatibleMessage("emitFile", plugin)) >= 1)
    => CountOf(Written, IncompatibleMessage("emitFile", plugin)) = 1

(***************************************************************************)
(* Claims about the resolution caches of a PackageData (ResolveSpec)       *)
(***************************************************************************)

\* C35: the reads and writes of a manifest's resolution cache in
\* resolvePackageEntry and resolveDeepImport complete without raising: the
\* resolution of a specifier whose package is located raises no TypeError.
C35_DetachedCacheWorks ==
  (tnr.called /\ Located(tnr.basedir)) => ~(tnr.kind = "throw" /\ tnr.error = "TypeError")

(***************************************************************************)
(* Claims about the termination of findNearestMainPackageData (MainSpec)   *)
(***************************************************************************)

AllTeardownSettled ==
  \A h \in TeardownHooks : \A i \in 1..Len(PluginHooks(plugins)) :
    HookSettled(h, PluginHooks(plugins)[i].name)

\* C34: in the step in which a promise returned by close() resolves, that of
\* the first call or that of a call made while or after the first one runs,
\* every buildEnd and closeBundle handler has settled.
C34_ResolvedAfterTeardown ==
  [][((closing.pc # "done" /\ closing'.pc = "done")
       \/ Len(closing'.again) > Len(closing.again))
     => AllTeardownSettled']_vars

(***************************************************************************)
(* Claims about unsupported context methods in the hooks (LogSpec)         *)
(***************************************************************************)

\* C31: a call of emitFile from a handler of any hook, buildEnd and
\* closeBundle among them, returns normally; it raises no exception.
C31_EmitFileNeverThrows ==
  (ctxCall # <<>> /\ ctxCall[1].method = "emitFile") => ctxCall[1].kind = "returned"

(***************************************************************************)
(* Claims about the resolution cache and the options of a call (EntrySpec) *)
(***************************************************************************)

\* C32: the entry of a located package whose exports map names one file for
\* import and another for require resolves, from the cache or not, to the
\* file a fresh resolution gives for the isRequire of the call.
C32_CacheMatchesOptions ==
  (/\ tnr.called
   /\ tnr.id = "pkg"
   /\ Located(tnr.basedir)
   /\ manifest.exports = "conditions")
  => (/\ tnr.kind = "id"
      /\ tnr.result[1].file = FileOf(resolveExportsOrImports([isRequire |-> tnr.isRequire])))

(***************************************************************************)
(* Claims about nested resolutions (SkipSpec)                              *)
(***************************************************************************)
\* the frames i+1 .. k were all started by this.resolve with skipSelf
SelfSkippingFrom(i, k) == \A j \in (i + 1)..k : resolving[j].options.skipSelf

\* C33: a handler running in a resolution nested through this.resolve calls
\* with skipSelf is neither the handler of a plugin that made one of those
\* calls nor that of a plugin an enclosing resolution of the chain skipped,
\* and such a chain is never longer than the number of plugins plus one.
C33_SkipSelfNeverReenters ==
  \A k \in 1..Len(resolving) : \A i \in 1..(k - 1) :
    SelfSkippingFrom(i, k) =>
      /\ resolving[k].active # resolving[i].active
      /\ resolving[k].active \notin resolving[i + 1].skip
      /\ k - i <= Len(plugins) + 1

\* three handlers are running, each nested in the one before by skipSelf
C33_Witness ==
  /\ Len(resolving) >= 3
  /\ SelfSkippingFrom(Len(resolving) - 2, Len(resolving))
  /\ Cardinality(resolving[Len(resolving)].skip) = 2

(***************************************************************************)
(* Claims about source positions (PosSpec, FrameSpec)                      *)
(***************************************************************************)
\* C37: an offset from 0 up to the source length, converted to a position by
\* numberToPosition and back by positionToNumber, is the offset again.
C37_PositionRoundTrip ==
  (pos # <<>> /\ pos[1].offset <= Len(pos[1].source) /\ pos[1].back.called)
  => pos[1].back.number = pos[1].offset

\* the rendered source line with the number lineNum is in res
HasLine(res, lineNum) == \E k \in 1..Len(res) : res[k].kind = "line" /\ res[k].lineNum = lineNum

\* the 1-based number of the line that holds the offset
LineOfOffset(source, offset) ==
  1 + Cardinality({k \in 1..Len(source) : k <= offset /\ source[k] = NewLine})

\* C38: generateCodeFrame of a start position inside the source terminates
\* and returns a rendered frame that holds the line of the start position and
\* a caret marker.
C38_FrameRendered ==
  frame # <<>> =>
    /\ ~frame[1].out.diverged
    /\ frame[1].out.returned = "string"
    /\ HasLine(frame[1].out.res,
               LineOfOffset(frame[1].source, positionToNumber(frame[1].source, frame[1].start)))
    /\ \E k \in 1..Len(frame[1].out.res) : frame[1].out.res[k].kind = "marker"

\* generateCodeFrame terminates for every start position inside the source
FrameTerminates == frame # <<>> => ~frame[1].out.diverged

(***************************************************************************)
(* Claims about mergeConfig (MergeSpec)                                    *)
(***************************************************************************)
\* C39: a key whose value in overrides is not null and that defaults does not
\* have, or has as null, is in the result of mergeConfig with the value of
\* overrides.
C39_OverridesKept ==
  merged # <<>> =>
    \A key \in ConfigKeys :
      (~IsNullish(merged[1].overrides[key]) /\ IsNullish(merged[1].defaults[key]))
      => merged[1].out[key] = merged[1].overrides[key]

(***************************************************************************)
(* Claims about the HMR client (HotSpec)                                   *)
(***************************************************************************)
\* C40: a notification of an event invokes every callback registered for the
\* event through a current hot context, whichever module registered it,
\* exactly once.
C40_EveryListenerOnce ==
  (hot # <<>> /\ hot[1].notified.called) =>
    \A cb \in hot[1].notified.registered : Count(hot[1].notified.invoked, cb) = 1

====
